---- MODULE Spec2Model ----
(***************************************************************************)
(* Model of the orchestration and persistence core of google-review:       *)
(*   services/task_queue.py    in-process task dedup queue and its worker  *)
(*   routes/api_tasks.py       polling surface over the queue              *)
(*   services/cache_store.py   TTL cache keyed by (cache_key, mode)        *)
(*   services/review_store.py  deduplicating review store                  *)
(*   services/url_normalizer.py  reduction of an input to a cache key      *)
(*                                                                         *)
(* Time is a discrete wall clock counted in ticks.  The two time-to-live   *)
(* windows are scaled to ticks: the task retention window to one tick, the *)
(* cache TTL (which a deployment overrides through the environment) to     *)
(* two, so that the cache TTL stays the longer of the two as in the source.*)
(***************************************************************************)
EXTENDS Integers, Sequences, FiniteSets, TLC

VARIABLES
    clock,      \* time.time() / datetime.now(), in ticks
    tasks,      \* task_queue._tasks_by_id : task_id -> task dict
    running,    \* task_queue._running_by_dedupe_key : dedupe_key -> task_id
    workers,    \* work items handed to _EXECUTOR and not yet returned
    nextId,     \* next fresh task id (uuid4 never repeats)
    cache,      \* table analysis_cache : <<cache_key, mode>> -> row
    rows,       \* table place_reviews : <<canonical_url, review_id>> -> row
    nextRowId,  \* AUTOINCREMENT counter of place_reviews.id
    hashSeed,   \* per-process seed of Python's str hash
    upserted,   \* history: <<canonical_url, reviews>> pairs upserted so far
    lastCall,   \* history: the most recent API call and what it returned
    sem,        \* apify_client._APIFY_RUN_SEM of each process: permits taken
    threads,    \* threads that call the external services: thread -> position
    catalog,    \* table place_catalog of one tag: item -> analyze status, error
    items,      \* analyze_catalog: the futures of _process_one, item -> position
    run,        \* analyze_catalog: the main thread's locals (done_n, stats)
    job,        \* table jobs: the record of the current run's job
    disc,       \* discover_xinyi_places: the main thread's locals
    batches,    \* discover_xinyi_places: batch number -> position of its fetch
    finished,   \* history: tasks that ended, with no submit for their key since
    resolved,   \* history: calls of normalize_input_to_canonical and their results
    txn,        \* review_store: the open transaction of the upsert in progress
    infer,      \* app.analyse_reviews: the call in progress and the calls ended
    tail,       \* the store writes that follow a finished analysis
    gw,         \* apify_client: the calls of one process, step by step
    wr,         \* a bulk run: the threads' store writes and the writer lock
    pcat        \* place_store: the rows of table place_catalog, column by column

vars == <<clock, tasks, running, workers, nextId, cache, rows, nextRowId,
          hashSeed, upserted, lastCall, sem, threads, catalog, items, run, job,
          disc, batches, finished, resolved, txn, infer,
          tail, gw, wr, pcat>>

queueVars == <<tasks, running, workers, nextId, finished>>
reviewVars == <<rows, nextRowId, hashSeed, upserted>>
gatewayVars == <<sem, threads>>
\* What the queue, the cache store and the review store leave alone.
analyzeVars == <<catalog, items, run, job>>
discoverVars == <<disc, batches>>
resolveVars == <<resolved, txn>>
\* Components modelled on their own.
unitVars == <<infer, tail, gw, wr, pcat>>
extVars == <<gatewayVars, analyzeVars, discoverVars, resolveVars, unitVars>>

(***************************************************************************)
(* Bounds of the model.                                                    *)
(***************************************************************************)
MaxTasks == 2
PoolTasks == 4
MaxClock == 3
MaxReviewClock == 1
MaxSeed == 1
MaxRuns == 2
NumBatches == 10
MaxReviews == 2
MaxResolved == 2
MaxInferCalls == 2
MaxTailCalls == 3
NumCallers == 3
MaxCatalogClock == 1
HeartbeatEvery == 2
SLOT_HINT_EVERY == 10

(***************************************************************************)
(* Program constants.                                                      *)
(***************************************************************************)
TASK_TTL_SECONDS == 1
CACHE_TTL_SECONDS == 2
MAX_WORKERS == 3
_APIFY_MAX_CONCURRENT_RUNS == 2
ERROR_MAX_CHARS == 300

Modes == {"quick", "deep"}

\* Python's None, as returned by the functions below: the empty sequence;
\* a returned value v is Some(v).
None == <<>>
Some(v) == <<v>>

(***************************************************************************)
(* services/url_normalizer.py                                              *)
(*                                                                         *)
(* An input is either free text or a text holding a URL.  A URL is kept as *)
(* its parts: scheme and host as typed, path, the allow-listed query       *)
(* parameters that carry an identity (query_place_id or q=place_id:, cid,  *)
(* ftid) and whether it drags parameters outside the allow-list (utm_*,    *)
(* fbclid, ...).                                                           *)
(***************************************************************************)
UrlOf(scheme, host, path, pid, cid, ftid, utm) ==
    [kind |-> "url", scheme |-> scheme, host |-> host, path |-> path,
     place_id |-> pid, cid |-> cid, ftid |-> ftid, utm |-> utm]

Url(host, path, pid, cid, utm) == UrlOf("https", host, path, pid, cid, "", utm)

Text(q) ==
    [kind |-> "text", scheme |-> "", host |-> "", path |-> q, place_id |-> "",
     cid |-> "", ftid |-> "", utm |-> FALSE]

NoUrl == Text("")

\* str.lower on the hosts of the model.
lower(netloc) ==
    IF netloc = "WWW.GOOGLE.COM" THEN "www.google.com"
    ELSE IF netloc = "Maps.App.Goo.Gl" THEN "maps.app.goo.gl"
    ELSE netloc

\* str.startswith.
startswith(str, prefix) ==
    Len(str) >= Len(prefix) /\ SubSeq(str, 1, Len(prefix)) = prefix

\* The regular expression https?:// is matched case-sensitively: a text
\* holds a URL only if the scheme is written http or https in lower case.
extract_first_url(inp) ==
    IF inp.kind = "url" /\ inp.scheme \in {"http", "https"}
    THEN Some(inp) ELSE None

_is_google_maps_domain(host) ==
    lower(host) \in {"www.google.com", "maps.google.com.tw", "maps.google.com"}

\* Drops every query parameter outside ALLOWED_QUERY_KEYS.
clean_tracking_params(u) == [u EXCEPT !.utm = FALSE]

\* place_id / cid are read from the query only on a Google Maps domain or on
\* the short-link domain; ftid is not read.
parse_maps_components(u) ==
    IF _is_google_maps_domain(u.host) \/ startswith(lower(u.host), "maps.app.goo.gl")
    THEN [place_id |-> u.place_id, cid |-> u.cid,
          display_name |-> IF u.path \in {"/maps/place/Cafe"} THEN "Cafe" ELSE ""]
    ELSE [place_id |-> "", cid |-> "", display_name |-> ""]

\* canonical_url and cache_key are flat tuples of strings; the 16 hex digits
\* of sha256(canonical_url) are kept as the canonical_url itself (the
\* truncated digest is taken as collision free).  The netloc of a host that
\* is not a Google Maps domain is kept as typed; ftid stays in the query.
canonicalize(u) ==
    LET cleaned == clean_tracking_params(u)
        comp == parse_maps_components(cleaned)
        base_netloc == IF _is_google_maps_domain(cleaned.host)
                       THEN "www.google.com" ELSE cleaned.host
        path2 == IF _is_google_maps_domain(cleaned.host)
                    /\ ~startswith(cleaned.path, "/maps")
                 THEN "/maps" ELSE cleaned.path
        query == IF cleaned.ftid # "" THEN <<"?ftid=", cleaned.ftid>> ELSE <<>>
        canonical_url ==
            IF comp.place_id # "" THEN <<"https", base_netloc, "/maps/place/?q=place_id:", comp.place_id>>
            ELSE IF comp.cid # "" THEN <<"https", "maps.google.com", "/?cid=", comp.cid>>
            ELSE <<"https", base_netloc, path2>> \o query
        cache_key ==
            IF comp.place_id # "" THEN <<"place_id", comp.place_id>>
            ELSE IF comp.cid # "" THEN <<"cid", comp.cid>>
            ELSE <<"url">> \o canonical_url
    IN [canonical_url |-> canonical_url, cache_key |-> cache_key,
        display_name |-> comp.display_name]

\* The text of an input: a query as typed, or a URL written out (without
\* its query string).
raw_text(inp) ==
    IF inp.kind = "text" THEN inp.path
    ELSE inp.scheme \o "://" \o inp.host \o inp.path

\* urllib.parse.quote on the texts of the model.
quote(text) ==
    IF text = "good cafe" THEN "good%20cafe"
    ELSE IF text = "HTTPS://www.google.com/maps/place/Cafe"
    THEN "HTTPS%3A//www.google.com/maps/place/Cafe"
    ELSE text

normalize_input_to_canonical(inp) ==
    IF extract_first_url(inp) # None
    THEN LET norm == canonicalize(inp)
         IN  IF norm.display_name = ""
             THEN [norm EXCEPT !.display_name = "raw text"]
             ELSE norm
    ELSE LET search_url ==
                 <<"https", "www.google.com", "/maps/search/" \o quote(raw_text(inp))>>
         IN [canonical_url |-> search_url,
             cache_key |-> <<"search_url">> \o search_url,
             display_name |-> raw_text(inp)]

\* A canonical_url handed back as the input text: the URL it spells.
AsInput(canonical_url) ==
    IF Len(canonical_url) = 4 /\ canonical_url[3] = "/maps/place/?q=place_id:"
    THEN UrlOf("https", canonical_url[2], "/maps/place/", canonical_url[4], "", "", FALSE)
    ELSE IF Len(canonical_url) = 4 /\ canonical_url[3] = "/?cid="
    THEN UrlOf("https", canonical_url[2], "/", "", canonical_url[4], "", TRUE)
    ELSE IF Len(canonical_url) = 5
    THEN UrlOf("https", canonical_url[2], canonical_url[3], "", "", canonical_url[5], FALSE)
    ELSE UrlOf("https", canonical_url[2], canonical_url[3], "", "", "", FALSE)

\* Inputs handed to submit_task: a place URL, the same URL with tracking
\* parameters, and a URL carrying a cid.
InPlain == Url("www.google.com", "/maps/place/Cafe", "", "", FALSE)
InPlainUtm == Url("www.google.com", "/maps/place/Cafe", "", "", TRUE)
InCid == Url("maps.google.com.tw", "/maps", "", "C1", FALSE)
Inputs == {InPlain, InPlainUtm, InCid}

(***************************************************************************)
(* What scrape_reviews can return: lists of raw review records, of which   *)
(* the worker reads url/placeUrl, placeId/place_id and cid.                *)
(***************************************************************************)
RawReview(url, pid, cid) == [url |-> url, placeId |-> pid, cid |-> cid]

RvPlain == RawReview(NoUrl, "", "")
RvPid == RawReview(NoUrl, "P1", "")
RvUrl == RawReview(Url("www.google.com", "/maps", "", "C1", TRUE), "", "")

ScrapeResults == { <<RvPlain>>, <<RvPlain, RvPid>>, <<RvUrl>> }

(***************************************************************************)
(* services/cache_store.py                                                 *)
(*                                                                         *)
(* A result object is a Python value: a dict (JSON serialisable), a tuple  *)
(* (serialisable, but read back as a list) or an arbitrary object          *)
(* (json.dumps raises TypeError).  Its content v is <<tag, name, count>>.  *)
(***************************************************************************)
PyValue(kind, v) == [kind |-> kind, v |-> v]

\* json.dumps: the JSON text, or None for TypeError.
json_dumps(obj) ==
    CASE obj.kind = "dict" -> Some([json |-> "object", v |-> obj.v])
      [] obj.kind = "tuple" -> Some([json |-> "array", v |-> obj.v])
      [] obj.kind = "str" -> Some([json |-> "string", v |-> obj.v])
      [] OTHER -> None

\* str(obj)
py_str(obj) == PyValue("str", obj.v)

\* json.loads of a text written by json.dumps.
json_loads(text) ==
    CASE text.json = "object" -> PyValue("dict", text.v)
      [] text.json = "array" -> PyValue("list", text.v)
      [] OTHER -> PyValue("str", text.v)

\* set_cached_analysis, lines 169-173: the text stored in result_json.
result_json_of(result_obj) ==
    IF json_dumps(result_obj) # None
    THEN json_dumps(result_obj)[1]
    ELSE json_dumps(py_str(result_obj))[1]

CacheEntry(cache_key, mode, row) ==
    [cache_key |-> cache_key, mode |-> mode,
     canonical_url |-> row.canonical_url, display_name |-> row.display_name,
     result_json |-> row.result_json, created_at |-> row.created_at]

as_result_object(entry) == json_loads(entry.result_json)

\* The TTL test of get_cached_analysis, line 147.
is_expired(created_at, now) == now - created_at > CACHE_TTL_SECONDS

\* get_cached_analysis that applies the TTL whatever allow_stale says.
get_cached_analysis_ttl_always(c, cache_key, mode, allow_stale, now) ==
    IF <<cache_key, mode>> \notin DOMAIN c
    THEN None
    ELSE LET row == c[<<cache_key, mode>>]
         IN  IF is_expired(row.created_at, now)
             THEN None
             ELSE Some(CacheEntry(cache_key, mode, row))

get_cached_analysis(c, cache_key, mode, allow_stale, now) ==
    IF <<cache_key, mode>> \notin DOMAIN c
    THEN None
    ELSE LET row == c[<<cache_key, mode>>]
         IN  IF is_expired(row.created_at, now) /\ ~allow_stale
             THEN None
             ELSE Some(CacheEntry(cache_key, mode, row))

\* set_cached_analysis as INSERT OR IGNORE: an existing row is kept.
set_cached_analysis_keep_old(c, cache_key, mode, canonical_url, display_name, result_obj, now) ==
    LET row == [canonical_url |-> canonical_url, display_name |-> display_name,
                result_json |-> result_json_of(result_obj), created_at |-> now]
    IN [x \in DOMAIN c \cup {<<cache_key, mode>>} |->
            IF x = <<cache_key, mode>> /\ x \notin DOMAIN c THEN row ELSE c[x]]

\* INSERT ... ON CONFLICT(cache_key, mode) DO UPDATE SET every other column.
set_cached_analysis(c, cache_key, mode, canonical_url, display_name, result_obj, now) ==
    LET row == [canonical_url |-> canonical_url, display_name |-> display_name,
                result_json |-> result_json_of(result_obj), created_at |-> now]
    IN [x \in DOMAIN c \cup {<<cache_key, mode>>} |->
            IF x = <<cache_key, mode>> THEN row ELSE c[x]]

delete_cache_entry(c, cache_key, mode) ==
    [x \in DOMAIN c \ {<<cache_key, mode>>} |-> c[x]]

\* DELETE FROM analysis_cache WHERE created_at < now - TTL
purged_keys(c, now) ==
    {x \in DOMAIN c : c[x].created_at < now - CACHE_TTL_SECONDS}

purge_expired(c, now) ==
    [x \in DOMAIN c \ purged_keys(c, now) |-> c[x]]

(***************************************************************************)
(* services/task_queue.py                                                  *)
(***************************************************************************)
_make_task_dict(task_id, mode, input_raw, canonical_url, display_name, cache_key, now) ==
    [task_id |-> task_id, status |-> "pending", progress |-> 0, mode |-> mode,
     input_raw |-> input_raw, canonical_url |-> canonical_url,
     display_name |-> display_name, cache_key |-> cache_key,
     final_cache_key |-> cache_key, created_at |-> now, error |-> FALSE,
     scrapes |-> 0, infers |-> 0]

\* _update_task writing the fields also when the record is gone.
_update_task_recreate(ts, task_id, fields) ==
    IF task_id \in DOMAIN ts
    THEN [ts EXCEPT ![task_id] = fields @@ @]
    ELSE [x \in DOMAIN ts \cup {task_id} |->
            IF x = task_id
            THEN fields @@ _make_task_dict(task_id, "quick", InPlain, <<>>, "",
                                           <<>>, 0)
            ELSE ts[x]]

\* _update_task: a no-op when the record is gone.  fields overrides the
\* record's fields of the same name.
_update_task(ts, task_id, fields) ==
    IF task_id \in DOMAIN ts
    THEN [ts EXCEPT ![task_id] = fields @@ @]
    ELSE ts

_get_task_copy(ts, task_id) ==
    IF task_id \in DOMAIN ts THEN Some(ts[task_id]) ELSE None

task_is_expired(task, now) == now - task.created_at > TASK_TTL_SECONDS

expired_task_ids(ts, now) == {tid \in DOMAIN ts : task_is_expired(ts[tid], now)}

\* _cleanup_expired: the task table and the dedupe map after the sweep.
cleanup_tasks(ts, now) ==
    [tid \in DOMAIN ts \ expired_task_ids(ts, now) |-> ts[tid]]

cleanup_running(ts, rn, now) ==
    [dk \in {d \in DOMAIN rn : rn[d] \notin expired_task_ids(ts, now)} |-> rn[dk]]

\* release_dedupe dropping the mappings of pending and running tasks only.
release_dedupe_live_only(rn, task_id) ==
    [dk \in {d \in DOMAIN rn : rn[d] # task_id \/ rn[d] \in finished} |-> rn[dk]]

\* The finally block of _run_worker: drop every mapping that points at task_id.
release_dedupe(rn, task_id) ==
    [dk \in {d \in DOMAIN rn : rn[d] # task_id} |-> rn[dk]]

\* existing_task with no test of the status.
existing_task_any_status(ts, rn, dedupe_key, now) ==
    IF dedupe_key \in DOMAIN rn /\ rn[dedupe_key] \in DOMAIN ts
    THEN LET existing == ts[rn[dedupe_key]]
         IN  IF now - existing.created_at <= TASK_TTL_SECONDS
             THEN Some(existing)
             ELSE None
    ELSE None

\* existing_task with the status test narrowed to "pending".
existing_task_pending_only(ts, rn, dedupe_key, now) ==
    IF dedupe_key \in DOMAIN rn /\ rn[dedupe_key] \in DOMAIN ts
    THEN LET existing == ts[rn[dedupe_key]]
         IN  IF now - existing.created_at <= TASK_TTL_SECONDS
                /\ existing.status \in {"pending"}
             THEN Some(existing)
             ELSE None
    ELSE None

\* submit_task, lines 112-119: the task the call returns instead of creating
\* one, or None.
existing_task(ts, rn, dedupe_key, now) ==
    IF dedupe_key \in DOMAIN rn /\ rn[dedupe_key] \in DOMAIN ts
    THEN LET existing == ts[rn[dedupe_key]]
         IN  IF now - existing.created_at <= TASK_TTL_SECONDS
                /\ existing.status \in {"pending", "running"}
             THEN Some(existing)
             ELSE None
    ELSE None

\* _run_worker, lines 219-247: the cache key after the upgrade loop over the
\* scraped reviews, starting at review i with the initial values cur.
RECURSIVE upgrade_from_reviews(_, _, _)
upgrade_from_reviews(reviews, i, cur) ==
    IF i > Len(reviews) THEN cur
    ELSE LET r == reviews[i] IN
         IF r.url.kind = "url"
         THEN LET norm == canonicalize(r.url)
              IN [cache_key |-> norm.cache_key,
                  canonical_url |-> norm.canonical_url,
                  display_name |-> IF norm.display_name # ""
                                   THEN norm.display_name ELSE cur.display_name]
         ELSE IF r.placeId # ""
         THEN [cur EXCEPT !.cache_key = <<"place_id", r.placeId>>]
         ELSE IF r.cid # ""
         THEN [cur EXCEPT !.cache_key = <<"cid", r.cid>>]
         ELSE upgrade_from_reviews(reviews, i + 1, cur)

\* _run_worker, lines 280-286: the mock analysis result.
mock_result(mode, display_name, review_count) ==
    PyValue("dict", <<mode, display_name, review_count>>)

(***************************************************************************)
(* The record kept of an API call.  seq flips at every call, so that a     *)
(* step that makes a call is told from every other step.                   *)
(***************************************************************************)
NoValue == PyValue("none", <<"", "", 0>>)

Call(op, tid, key, mode, stale, obj, ret, code, scheduled) ==
    [op |-> op, tid |-> tid, key |-> key, mode |-> mode, stale |-> stale,
     obj |-> obj, ret |-> ret, code |-> code, scheduled |-> scheduled,
     seq |-> 1 - lastCall.seq]

IsCall(op) == lastCall'.seq # lastCall.seq /\ lastCall'.op = op

(***************************************************************************)
(* services/apify_client.py: the threads that reach the external services. *)
(*                                                                         *)
(* The web server (app.py) and the batch scripts (scripts/build_xinyi_db.py*)
(* and its callers) are separate operating-system processes; each imports  *)
(* apify_client and so holds a threading.Semaphore of its own.             *)
(***************************************************************************)
Processes == {"web", "batch"}

\* <<process, call site, n>>: the task queue's pool threads and the request
\* threads of the analyze route in the web process, the discovery and the
\* analysis pool threads in the batch process.
Threads ==
    {<<"web", "task_worker", 1>>, <<"web", "analyze_route", 1>>,
     <<"web", "analyze_route", 2>>, <<"batch", "discovery_worker", 1>>,
     <<"batch", "analysis_worker", 1>>, <<"batch", "analysis_worker", 2>>}

\* The call sites that go on to the inference service after a scrape: the
\* task queue's worker sleeps in place of the call (task_queue.py 273-286).
CallsInference(th) == th[2] \in {"analyze_route", "analysis_worker"}

(***************************************************************************)
(* scripts/build_xinyi_db.py analyze_catalog: the catalog items of the tag *)
(* (list_catalog_places returns every item of the tag, whatever its        *)
(* status) and a future of _process_one that has not been submitted.       *)
(***************************************************************************)
Place == "https://www.google.com/maps/place/Cafe"
OtherPlace == "https://www.google.com/maps/place/Bar"

\* The canonical_url column of the items.
CatalogItems == {Place, OtherPlace}

\* urllib.parse.urlparse on the canonical_url of an item.
urlparse(canonical_url) ==
    IF canonical_url = Place THEN InPlain
    ELSE Url("www.google.com", "/maps/place/Bar", "", "", FALSE)

\* The batches of a discovery run, in the order of _chunk.
Batches == 1..NumBatches

\* The locals of discover_xinyi_places before it is called.
IdleDiscovery ==
    [pc |-> "idle", workers |-> 0, done_batches |-> 0, failed_batches |-> 0,
     abort_reason |-> None, finished |-> <<>>, new_count |-> 0,
     seen_canonical |-> {}, max_upserts |-> None]

\* No upsert in progress.
IdleTxn ==
    [pc |-> "idle", canonical_url |-> "", reviews |-> <<>>, i |-> 0, now |-> 0,
     st |-> [rows |-> <<>>, nextRowId |-> 0, inserted |-> 0, processed |-> 0]]

\* No call of analyse_reviews in progress and none made.
IdleInfer ==
    [pc |-> "idle", log |-> <<>>, last_error |-> "", analysis |-> "",
     outcome |-> "", history |-> <<>>]

\* The threads of a bulk run: the thread that called discover_places_grid
\* or analyze_catalog, and the threads of its pool.
RunThreads == {"main", "w1", "w2"}

\* The threads of one process that call _apify_run_actor.
Callers == 1..NumCallers

\* A thread that is not in _apify_run_actor.  hb is the position of the
\* heartbeat thread of its call, "none" when none was started.
IdleGatewayCall ==
    [pc |-> "idle", heartbeat_every |-> 0, waited |-> 0, hb |-> "none",
     stop_evt |-> FALSE, silent |-> FALSE]

\* No analysis has reached its store writes yet.
IdleTail ==
    [path |-> "", faults |-> {}, cached |-> FALSE, summarised |-> FALSE,
     status |-> "", reported |-> "", history |-> <<>>]

IdleItem ==
    [pc |-> "idle", reviews |-> <<>>, inserted_new |-> 0, window |-> <<>>,
     analysis |-> None, result |-> "", scrapes |-> 0, infers |-> 0]

(***************************************************************************)
(* Initial state: a fresh process over empty stores.                       *)
(***************************************************************************)
Init ==
    /\ clock = 0
    /\ tasks = << >>
    /\ running = << >>
    /\ workers = << >>
    /\ nextId = 1
    /\ cache = << >>
    /\ rows = << >>
    /\ nextRowId = 1
    /\ hashSeed = 0
    /\ upserted = {}
    /\ lastCall = [op |-> "init", tid |-> 0, key |-> <<>>, mode |-> "",
                   stale |-> FALSE, obj |-> NoValue, ret |-> None, code |-> 0,
                   scheduled |-> FALSE, seq |-> 0]
    /\ sem = [p \in Processes |-> 0]
    /\ threads = [th \in Threads |-> "idle"]
    /\ catalog = [i \in CatalogItems |-> [status |-> "pending", error |-> None]]
    /\ items = [i \in CatalogItems |-> IdleItem]
    /\ run = [pc |-> "idle", n |-> 0, force_refresh |-> FALSE, done_n |-> 0,
              analyzed |-> 0, skipped |-> 0, failed |-> 0, resumed |-> {}]
    /\ job = [id |-> 0, status |-> "none", total |-> 0, done |-> 0,
              failed |-> 0, skipped |-> 0]
    /\ disc = IdleDiscovery
    /\ finished = {}
    /\ resolved = <<>>
    /\ txn = IdleTxn
    /\ infer = IdleInfer
    /\ tail = IdleTail
    /\ gw = [free |-> _APIFY_MAX_CONCURRENT_RUNS,
             calls |-> [c \in Callers |-> IdleGatewayCall],
             event |-> <<>>]
    /\ pcat = [rows |-> {}, now |-> 0,
               last |-> [op |-> "", tag |-> "", canonical_url |-> "",
                         name |-> None, google_rating |-> None]]
    /\ wr = [kind |-> "", db_lock |-> "", writing |-> {},
             threads |-> [t \in RunThreads |-> [pc |-> "ready", todo |-> <<>>]]]
    /\ batches = [b \in Batches |-> "unsubmitted"]

Tick ==
    /\ clock < MaxClock
    /\ clock' = clock + 1
    /\ UNCHANGED <<extVars, queueVars, cache, reviewVars, lastCall>>

(***************************************************************************)
(* History of the tasks that have reached done or error.                   *)
(***************************************************************************)
TaskKey(task) == <<task.cache_key, task.mode>>

Terminated(task) == task.status \in {"done", "error"}

\* After a step: the tasks still in the table that ended in this step or
\* had ended before it.
FinishedAfter ==
    {x \in DOMAIN tasks' :
        /\ Terminated(tasks'[x])
        /\ x \in finished \/ (x \in DOMAIN tasks /\ ~Terminated(tasks[x]))}

(***************************************************************************)
(* submit_task.  The clock is read twice, in _cleanup_expired and again    *)
(* before the lock is taken; dt is the time that passes between the reads. *)
(***************************************************************************)
SubmitTaskWithin(input_raw, mode, dt, max_tasks) ==
    LET ts1 == cleanup_tasks(tasks, clock)
        rn1 == cleanup_running(tasks, running, clock)
        now == clock + dt
        info == normalize_input_to_canonical(input_raw)
        dedupe_key == <<info.cache_key, mode>>
        existing == existing_task(ts1, rn1, dedupe_key, now)
        task == _make_task_dict(nextId, mode, input_raw, info.canonical_url,
                                info.display_name, info.cache_key, now)
    IN
    /\ now <= MaxClock
    /\ clock' = now
    /\ IF existing # None
       THEN /\ tasks' = ts1
            /\ running' = rn1
            /\ UNCHANGED <<workers, nextId>>
            /\ lastCall' = Call("submit", existing[1].task_id, <<>>, "",
                                FALSE, NoValue, Some(existing[1].task_id), 200, FALSE)
       ELSE /\ nextId <= max_tasks
            /\ tasks' = [x \in DOMAIN ts1 \cup {nextId} |->
                            IF x = nextId THEN task ELSE ts1[x]]
            /\ running' = [d \in DOMAIN rn1 \cup {dedupe_key} |->
                            IF d = dedupe_key THEN nextId ELSE rn1[d]]
            /\ workers' = [x \in DOMAIN workers \cup {nextId} |->
                            IF x = nextId
                            THEN [pc |-> "queued", input_raw |-> input_raw,
                                  mode |-> mode,
                                  up |-> [cache_key |-> info.cache_key,
                                          canonical_url |-> info.canonical_url,
                                          display_name |-> info.display_name],
                                  review_count |-> 0]
                            ELSE workers[x]]
            /\ nextId' = nextId + 1
            /\ lastCall' = Call("submit", nextId, <<>>, "", FALSE,
                                NoValue, Some(task.task_id), 200, TRUE)
    /\ UNCHANGED <<extVars, cache, reviewVars>>
    /\ finished' = {x \in FinishedAfter : TaskKey(tasks'[x]) # dedupe_key}

\* submit_task with the number of tasks ever created bounded by MaxTasks.
SubmitTask(input_raw, mode, dt) == SubmitTaskWithin(input_raw, mode, dt, MaxTasks)

(***************************************************************************)
(* _run_worker, one action per stretch between two points where another    *)
(* thread can observe or change the shared state.                          *)
(***************************************************************************)
ActiveWorkers == {t \in DOMAIN workers : workers[t].pc # "queued"}

SetPc(t, pc) == [workers EXCEPT ![t].pc = pc]

DropWorker(t) == [x \in DOMAIN workers \ {t} |-> workers[x]]

\* WorkerStart without the status="running" update.
WorkerStart_no_running(t) ==
    /\ t \in DOMAIN workers
    /\ workers[t].pc = "queued"
    /\ Cardinality(ActiveWorkers) < MAX_WORKERS
    /\ IF _get_task_copy(tasks, t) = None
       THEN /\ workers' = DropWorker(t)
            /\ UNCHANGED tasks
       ELSE /\ tasks' = _update_task(tasks, t, [progress |-> 5])
            /\ workers' = SetPc(t, "check")
    /\ UNCHANGED <<extVars, clock, running, nextId, cache, reviewVars, lastCall>>
    /\ finished' = FinishedAfter

\* Lines 169-176: a pool thread picks the work item up.
WorkerStart(t) ==
    /\ t \in DOMAIN workers
    /\ workers[t].pc = "queued"
    /\ Cardinality(ActiveWorkers) < MAX_WORKERS
    /\ IF _get_task_copy(tasks, t) = None
       THEN /\ workers' = DropWorker(t)
            /\ UNCHANGED tasks
       ELSE /\ tasks' = _update_task(tasks, t, [status |-> "running", progress |-> 5])
            /\ workers' = SetPc(t, "check")
    /\ UNCHANGED <<extVars, clock, running, nextId, cache, reviewVars, lastCall>>
    /\ finished' = FinishedAfter

\* WorkerCheckCache looking the key up under the default mode "quick".
WorkerCheckCache_default_mode(t) ==
    /\ t \in DOMAIN workers
    /\ workers[t].pc = "check"
    /\ LET info == normalize_input_to_canonical(workers[t].input_raw)
           ts1 == _update_task(tasks, t,
                     [canonical_url |-> info.canonical_url,
                      display_name |-> info.display_name,
                      cache_key |-> info.cache_key,
                      final_cache_key |-> info.cache_key, progress |-> 10])
           entry == get_cached_analysis(cache, info.cache_key, "quick", FALSE, clock)
       IN IF entry # None
          THEN /\ tasks' = _update_task(ts1, t,
                              [status |-> "done", progress |-> 100, error |-> FALSE])
               /\ workers' = SetPc(t, "finally")
          ELSE /\ tasks' = _update_task(ts1, t, [progress |-> 20])
               /\ workers' = SetPc(t, "scrape")
    /\ UNCHANGED <<extVars, clock, running, nextId, cache, reviewVars, lastCall>>
    /\ finished' = FinishedAfter

\* Lines 180-208: normalise again and look the initial key up in the cache.
WorkerCheckCache(t) ==
    /\ t \in DOMAIN workers
    /\ workers[t].pc = "check"
    /\ LET info == normalize_input_to_canonical(workers[t].input_raw)
           ts1 == _update_task(tasks, t,
                     [canonical_url |-> info.canonical_url,
                      display_name |-> info.display_name,
                      cache_key |-> info.cache_key,
                      final_cache_key |-> info.cache_key, progress |-> 10])
           entry == get_cached_analysis(cache, info.cache_key, workers[t].mode,
                                        FALSE, clock)
       IN IF entry # None
          THEN /\ tasks' = _update_task(ts1, t,
                              [status |-> "done", progress |-> 100, error |-> FALSE])
               /\ workers' = SetPc(t, "finally")
          ELSE /\ tasks' = _update_task(ts1, t, [progress |-> 20])
               /\ workers' = SetPc(t, "scrape")
    /\ UNCHANGED <<extVars, clock, running, nextId, cache, reviewVars, lastCall>>
    /\ finished' = FinishedAfter

\* Lines 216-273: scrape_reviews returns reviews; upgrade the key and look
\* the upgraded key up.
WorkerScrape(t, reviews) ==
    /\ t \in DOMAIN workers
    /\ workers[t].pc = "scrape"
    /\ LET w == workers[t]
           cache_key == w.up.cache_key
           up == upgrade_from_reviews(reviews, 1, w.up)
           final_cache_key == up.cache_key
           ts0 == IF t \in DOMAIN tasks
                  THEN [tasks EXCEPT ![t].scrapes = @ + 1] ELSE tasks
           ts1 == _update_task(ts0, t,
                     [final_cache_key |-> final_cache_key,
                      canonical_url |-> up.canonical_url,
                      display_name |-> up.display_name, progress |-> 40])
           upgraded_entry == IF final_cache_key # cache_key
                             THEN get_cached_analysis(cache, final_cache_key, w.mode,
                                                      FALSE, clock)
                             ELSE None
       IN IF upgraded_entry # None
          THEN /\ tasks' = _update_task(ts1, t,
                              [status |-> "done", progress |-> 100, error |-> FALSE])
               /\ workers' = [workers EXCEPT ![t].pc = "finally", ![t].up = up,
                                             ![t].review_count = Len(reviews)]
          ELSE /\ tasks' = _update_task(ts1, t, [progress |-> 60])
               /\ workers' = [workers EXCEPT ![t].pc = "infer", ![t].up = up,
                                             ![t].review_count = Len(reviews)]
    /\ UNCHANGED <<extVars, clock, running, nextId, cache, reviewVars, lastCall>>
    /\ finished' = FinishedAfter

\* WorkerScrapeFails with the exception leaving _run_worker through the
\* finally block alone.
WorkerScrapeFails_unhandled(t) ==
    /\ t \in DOMAIN workers
    /\ workers[t].pc = "scrape"
    /\ workers' = SetPc(t, "finally")
    /\ UNCHANGED <<extVars, clock, tasks, running, nextId, cache, reviewVars, lastCall,
                   finished>>

\* Lines 216, 306-312: scrape_reviews raises.
WorkerScrapeFails(t) ==
    /\ t \in DOMAIN workers
    /\ workers[t].pc = "scrape"
    /\ LET ts0 == IF t \in DOMAIN tasks
                  THEN [tasks EXCEPT ![t].scrapes = @ + 1] ELSE tasks
       IN tasks' = _update_task(ts0, t, [status |-> "error", error |-> TRUE])
    /\ workers' = SetPc(t, "finally")
    /\ UNCHANGED <<extVars, clock, running, nextId, cache, reviewVars, lastCall>>
    /\ finished' = FinishedAfter

\* Lines 273-288: the (mock) inference.
WorkerInfer(t) ==
    /\ t \in DOMAIN workers
    /\ workers[t].pc = "infer"
    /\ LET ts0 == IF t \in DOMAIN tasks
                  THEN [tasks EXCEPT ![t].infers = @ + 1] ELSE tasks
       IN tasks' = _update_task(ts0, t, [progress |-> 80])
    /\ workers' = SetPc(t, "write")
    /\ UNCHANGED <<extVars, clock, running, nextId, cache, reviewVars, lastCall>>
    /\ finished' = FinishedAfter

\* Lines 289-304: write the cache under the final key, then mark done.
WorkerWrite(t) ==
    /\ t \in DOMAIN workers
    /\ workers[t].pc = "write"
    /\ LET w == workers[t] IN
       /\ cache' = set_cached_analysis(cache, w.up.cache_key, w.mode,
                       w.up.canonical_url, w.up.display_name,
                       mock_result(w.mode, w.up.display_name, w.review_count), clock)
       /\ tasks' = _update_task(tasks, t,
                       [status |-> "done", progress |-> 100, error |-> FALSE])
    /\ workers' = SetPc(t, "finally")
    /\ UNCHANGED <<extVars, clock, running, nextId, reviewVars, lastCall>>
    /\ finished' = FinishedAfter

\* Lines 314-321: the finally block; the work item returns.
WorkerFinally(t) ==
    /\ t \in DOMAIN workers
    /\ workers[t].pc = "finally"
    /\ running' = release_dedupe(running, t)
    /\ workers' = DropWorker(t)
    /\ UNCHANGED <<extVars, clock, tasks, nextId, cache, reviewVars, lastCall, finished>>

(***************************************************************************)
(* The polling surface: get_task_status, get_task_result and the route     *)
(* GET /api/task/<task_id>/result.                                         *)
(***************************************************************************)
TaskIds == 1..MaxTasks

get_task_status(ts, task_id, now) ==
    _get_task_copy(cleanup_tasks(ts, now), task_id)

\* get_task_result without the status test.
get_task_result_any_status(ts, c, task_id, now) ==
    LET task == _get_task_copy(cleanup_tasks(ts, now), task_id) IN
    IF task = None THEN None
    ELSE LET entry == get_cached_analysis(c, task[1].final_cache_key,
                                          task[1].mode, FALSE, now)
         IN IF entry = None THEN None ELSE Some(as_result_object(entry[1]))

get_task_result(ts, c, task_id, now) ==
    LET task == _get_task_copy(cleanup_tasks(ts, now), task_id) IN
    IF task = None THEN None
    ELSE IF task[1].status # "done" THEN None
    ELSE LET entry == get_cached_analysis(c, task[1].final_cache_key,
                                          task[1].mode, FALSE, now)
         IN IF entry = None THEN None ELSE Some(as_result_object(entry[1]))

\* route_code reporting a missing result as "not found".
route_code_miss_404(st, res) ==
    IF st = None THEN 404
    ELSE IF st[1].status # "done" THEN 409
    ELSE IF res = None THEN 404
    ELSE 200

\* get_task_result_route, lines 81-114: the HTTP status of the response.
\* st is what get_task_status returned, res what get_task_result returned.
route_code(st, res) ==
    IF st = None THEN 404
    ELSE IF st[1].status # "done" THEN 409
    ELSE IF res = None THEN 500
    ELSE 200

GetTaskResult(task_id) ==
    /\ tasks' = cleanup_tasks(tasks, clock)
    /\ running' = cleanup_running(tasks, running, clock)
    /\ lastCall' = Call("result", task_id, <<>>, "", FALSE, NoValue,
                        get_task_result(tasks, cache, task_id, clock), 0, FALSE)
    /\ UNCHANGED <<extVars, clock, workers, nextId, cache, reviewVars>>
    /\ finished' = FinishedAfter

\* The route calls get_task_status and then, for a done task, get_task_result;
\* dt is the time that passes between the two calls.
GetTaskResultRoute(task_id, dt) ==
    LET st == get_task_status(tasks, task_id, clock)
        fetched == st # None /\ st[1].status = "done"
        now == IF fetched THEN clock + dt ELSE clock
        res == IF fetched THEN get_task_result(tasks, cache, task_id, now) ELSE None
    IN
    /\ now <= MaxClock
    /\ (~fetched => dt = 0)
    /\ clock' = now
    /\ tasks' = cleanup_tasks(tasks, now)
    /\ running' = cleanup_running(tasks, running, now)
    /\ lastCall' = Call("route", task_id, <<>>, "", FALSE, NoValue, res,
                        route_code(st, res), FALSE)
    /\ UNCHANGED <<extVars, workers, nextId, cache, reviewVars>>
    /\ finished' = FinishedAfter

(***************************************************************************)
(* The task queue polled through get_task_status and get_task_result.      *)
(***************************************************************************)
PollArgs == {<<InPlain, "quick">>, <<InPlainUtm, "quick">>}

\* get_task_status, lines 140-143: the sweep, then a copy of the record.
GetTaskStatus(task_id) ==
    /\ tasks' = cleanup_tasks(tasks, clock)
    /\ running' = cleanup_running(tasks, running, clock)
    /\ lastCall' = Call("status", task_id, <<>>, "", FALSE, NoValue,
                        get_task_status(tasks, task_id, clock), 0, FALSE)
    /\ UNCHANGED <<extVars, clock, workers, nextId, cache, reviewVars>>
    /\ finished' = FinishedAfter

NextStatus ==
    \/ Tick
    \/ \E a \in PollArgs, dt \in {0, 1} : SubmitTask(a[1], a[2], dt)
    \/ \E t \in TaskIds : WorkerStart(t)
    \/ \E t \in TaskIds : WorkerCheckCache(t)
    \/ \E t \in TaskIds, reviews \in ScrapeResults : WorkerScrape(t, reviews)
    \/ \E t \in TaskIds : WorkerScrapeFails(t)
    \/ \E t \in TaskIds : WorkerInfer(t)
    \/ \E t \in TaskIds : WorkerWrite(t)
    \/ \E t \in TaskIds : WorkerFinally(t)
    \/ \E t \in TaskIds : GetTaskStatus(t)
    \/ \E t \in TaskIds : GetTaskResult(t)

SpecStatus == Init /\ [][NextStatus]_vars

(***************************************************************************)
(* The worker pool.  More tasks are submitted than _EXECUTOR has threads.  *)
(* submit_task reads the dict it returns, dict(task), after it has handed  *)
(* the work item to the pool and outside the lock, while the worker        *)
(* updates the same dict: the submit of a new task is two steps here, the  *)
(* call up to _EXECUTOR.submit and the return.                             *)
(***************************************************************************)
\* The requests, in the order of their arrival.
PoolArgs == << <<InPlain, "quick">>, <<InPlain, "deep">>, <<InCid, "quick">>,
               <<InCid, "deep">> >>

\* Lines 91-136, up to _EXECUTOR.submit; the caller's previous submit has
\* returned.
PoolSubmit ==
    /\ ~(lastCall.op = "submit" /\ lastCall.scheduled)
    /\ nextId <= PoolTasks
    /\ SubmitTaskWithin(PoolArgs[nextId][1], PoolArgs[nextId][2], 0, PoolTasks)

\* Line 137: return dict(task), a copy of the record as it is by now.
PoolSubmitReturn ==
    /\ lastCall.op = "submit" /\ lastCall.scheduled
    /\ lastCall.tid \in DOMAIN tasks
    /\ lastCall' = Call("submit_return", lastCall.tid, <<>>, "", FALSE,
                        PyValue("task", <<tasks[lastCall.tid].status, "",
                                          tasks[lastCall.tid].progress>>),
                        Some(lastCall.tid), 200, FALSE)
    /\ UNCHANGED <<extVars, clock, queueVars, cache, reviewVars>>

NextPool ==
    \/ PoolSubmit
    \/ PoolSubmitReturn
    \/ \E t \in 1..PoolTasks : WorkerStart(t)
    \/ \E t \in 1..PoolTasks : WorkerCheckCache(t)
    \/ \E t \in 1..PoolTasks : WorkerScrape(t, <<RvPlain>>)
    \/ \E t \in 1..PoolTasks : WorkerScrapeFails(t)
    \/ \E t \in 1..PoolTasks : WorkerInfer(t)
    \/ \E t \in 1..PoolTasks : WorkerWrite(t)
    \/ \E t \in 1..PoolTasks : WorkerFinally(t)

SpecPool == Init /\ [][NextPool]_vars

(***************************************************************************)
(* routes/api_tasks.py submit_refresh, POST /api/submit/refresh.           *)
(***************************************************************************)
\* task_queue.py line 91: the parameters of submit_task.
submit_task_params == {"input_raw", "mode"}

\* Lines 45-66 of the route, for a valid input and mode: the call
\* submit_task(input_raw=, mode=, force_refresh=True) binds its keywords to
\* the parameters of submit_task or raises TypeError before the body of
\* submit_task runs, which the server answers with 500.
SubmitRefresh(input_raw, mode) ==
    IF {"input_raw", "mode", "force_refresh"} \subseteq submit_task_params
    THEN SubmitTask(input_raw, mode, 0)
    ELSE /\ lastCall' = Call("refresh", 0, <<>>, mode, FALSE, NoValue, None, 500, FALSE)
         /\ UNCHANGED <<extVars, clock, queueVars, cache, reviewVars>>

NextRefresh ==
    \/ \E a \in PollArgs : SubmitTask(a[1], a[2], 0)
    \/ \E a \in PollArgs : SubmitRefresh(a[1], a[2])
    \/ \E t \in TaskIds : WorkerStart(t)
    \/ \E t \in TaskIds : WorkerCheckCache(t)
    \/ \E t \in TaskIds, reviews \in ScrapeResults : WorkerScrape(t, reviews)
    \/ \E t \in TaskIds : WorkerScrapeFails(t)
    \/ \E t \in TaskIds : WorkerInfer(t)
    \/ \E t \in TaskIds : WorkerWrite(t)
    \/ \E t \in TaskIds : WorkerFinally(t)

SpecRefresh == Init /\ [][NextRefresh]_vars

(***************************************************************************)
(* Calls on the cache store made from outside the queue: the analyze route *)
(* (app.py api_analyze) writes results, maintenance deletes and purges.    *)
(***************************************************************************)
CacheKeys ==
    {normalize_input_to_canonical(i).cache_key : i \in Inputs}
        \cup {<<"place_id", "P1">>, <<"cid", "C1">>}

SetCachedAnalysis(cache_key, mode, canonical_url, display_name, result_obj) ==
    /\ cache' = set_cached_analysis(cache, cache_key, mode, canonical_url,
                                    display_name, result_obj, clock)
    /\ lastCall' = Call("put", 0, cache_key, mode, FALSE,
                        <<canonical_url, display_name, result_obj>>, None, 0, FALSE)
    /\ UNCHANGED <<extVars, clock, queueVars, reviewVars>>

GetCachedAnalysis(cache_key, mode, allow_stale) ==
    /\ lastCall' = Call("get", 0, cache_key, mode, allow_stale, NoValue,
                        get_cached_analysis(cache, cache_key, mode, allow_stale, clock),
                        0, FALSE)
    /\ UNCHANGED <<extVars, clock, queueVars, cache, reviewVars>>

\* Deleting a row that is not stored changes nothing (rowcount 0); only the
\* delete of a stored row is a step.
DeleteCacheEntry(cache_key, mode) ==
    /\ <<cache_key, mode>> \in DOMAIN cache
    /\ cache' = delete_cache_entry(cache, cache_key, mode)
    /\ lastCall' = Call("delete", 0, <<>>, "", FALSE, NoValue, None, 0, FALSE)
    /\ UNCHANGED <<extVars, clock, queueVars, reviewVars>>

PurgeExpired ==
    /\ cache' = purge_expired(cache, clock)
    /\ lastCall' = Call("purge", 0, <<>>, "", FALSE, NoValue, None,
                        Cardinality(purged_keys(cache, clock)), FALSE)
    /\ UNCHANGED <<extVars, clock, queueVars, reviewVars>>

(***************************************************************************)
(* The task queue with the cache behind it.                                *)
(***************************************************************************)
SubmitArgs == {<<InPlain, "quick">>, <<InPlainUtm, "quick">>, <<InPlain, "deep">>}

Next ==
    \/ Tick
    \/ \E a \in SubmitArgs, dt \in {0, 1} : SubmitTask(a[1], a[2], dt)
    \/ \E t \in TaskIds : WorkerStart(t)
    \/ \E t \in TaskIds : WorkerCheckCache(t)
    \/ \E t \in TaskIds, reviews \in ScrapeResults : WorkerScrape(t, reviews)
    \/ \E t \in TaskIds : WorkerScrapeFails(t)
    \/ \E t \in TaskIds : WorkerInfer(t)
    \/ \E t \in TaskIds : WorkerWrite(t)
    \/ \E t \in TaskIds : WorkerFinally(t)
    \/ \E k \in CacheKeys, m \in Modes : DeleteCacheEntry(k, m)
    \/ PurgeExpired

Spec == Init /\ [][Next]_vars

(***************************************************************************)
(* The task queue polled through get_task_status, get_task_result and the  *)
(* result route, with the cache behind it.                                 *)
(***************************************************************************)
NextPoll ==
    \/ Tick
    \/ \E a \in PollArgs, dt \in {0, 1} : SubmitTask(a[1], a[2], dt)
    \/ \E t \in TaskIds : WorkerStart(t)
    \/ \E t \in TaskIds : WorkerCheckCache(t)
    \/ \E t \in TaskIds, reviews \in ScrapeResults : WorkerScrape(t, reviews)
    \/ \E t \in TaskIds : WorkerScrapeFails(t)
    \/ \E t \in TaskIds : WorkerInfer(t)
    \/ \E t \in TaskIds : WorkerWrite(t)
    \/ \E t \in TaskIds : WorkerFinally(t)
    \/ \E t \in TaskIds : GetTaskResult(t)
    \/ \E t \in TaskIds, dt \in {0, 1} : GetTaskResultRoute(t, dt)
    \/ \E k \in CacheKeys, m \in Modes : DeleteCacheEntry(k, m)
    \/ PurgeExpired

SpecPoll == Init /\ [][NextPoll]_vars

(***************************************************************************)
(* The cache store on its own, driven through its API.                     *)
(***************************************************************************)
CacheSlots == {<<<<"place_id", "P1">>, "quick">>, <<<<"place_id", "P1">>, "deep">>,
               <<<<"cid", "C1">>, "quick">>}

\* <<canonical_url, display_name, result_obj>> of a write.
CacheWrites ==
    {<<<<"https", "www.google.com", "/maps">>, "Cafe", PyValue("dict", <<"llm", "Cafe", 1>>)>>,
     <<<<"https", "maps.google.com", "/?cid=">>, "Cafe 2", PyValue("tuple", <<"llm", "Cafe", 2>>)>>,
     <<<<"https", "www.google.com", "/maps">>, "Cafe", PyValue("object", <<"llm", "Cafe", 3>>)>>}

NextCache ==
    \/ Tick
    \/ \E sl \in CacheSlots, w \in CacheWrites :
          SetCachedAnalysis(sl[1], sl[2], w[1], w[2], w[3])
    \/ \E sl \in CacheSlots, allow_stale \in BOOLEAN :
          GetCachedAnalysis(sl[1], sl[2], allow_stale)
    \/ \E sl \in CacheSlots : DeleteCacheEntry(sl[1], sl[2])
    \/ PurgeExpired

SpecCache == Init /\ [][NextCache]_vars

(***************************************************************************)
(* services/review_store.py                                                *)
(*                                                                         *)
(* A scraped item is a dict or something else (skipped).  Of a dict the    *)
(* store reads the id (reviewId / review_id / id), reviewUrl, the publish  *)
(* time and the text; ver tells two payloads of the same review apart.     *)
(***************************************************************************)
ReviewDict(id, reviewUrl, published, text, stars) ==
    [isdict |-> TRUE, id |-> id, reviewUrl |-> reviewUrl,
     published |-> published, text |-> text, stars |-> stars]

NotADict == [isdict |-> FALSE, id |-> "", reviewUrl |-> "", published |-> "",
             text |-> "", stars |-> 0]

\* str.strip() on the ids of the model.
strip(str) ==
    CASE str = " r1 " -> "r1"
      [] str = "  " -> ""
      [] OTHER -> str

\* The string the fallback id hashes: reviewUrl, else "<published>-<text[:80]>".
fallback_string(r) ==
    IF r.reviewUrl # "" THEN <<r.reviewUrl>> ELSE <<r.published, "-", r.text>>

\* Python's hash() of a str: fixed within a process, salted by the process's
\* hash seed, with a small range so that two strings can collide.
str_code(fb) ==
    CASE fb = <<"2024-01-01", "-", "good">> -> 0
      [] fb = <<"2024-01-02", "-", "bad">> -> 1
      [] fb = <<"http://r/3">> -> 2
      [] OTHER -> 3

py_hash(seed, fb) == (((str_code(fb) + 1) * (seed + 2)) % 5) - 2

abs(n) == IF n < 0 THEN 0 - n ELSE n

digits(n) == CASE n = 0 -> "0" [] n = 1 -> "1" [] n = 2 -> "2" [] OTHER -> "3"

\* Lines 96-101: the review_id of a dict.
review_id_of(r, seed) ==
    IF strip(r.id) # ""
    THEN <<"id", strip(r.id)>>
    ELSE <<"fallback:", digits(abs(py_hash(seed, fallback_string(r))))>>

\* Lines 121-155: INSERT OR IGNORE; the row a new review creates.
new_row(r, rowid, now) ==
    [id |-> rowid, published_at |-> r.published, stars |-> r.stars,
     text |-> r.text, raw_json |-> r, scraped_at |-> now, first_seen_at |-> now,
     last_seen_at |-> now]

\* row_created counting every statement executed, ignored or not.
row_created_always(tbl, key) == TRUE

\* Lines 154-155: whether the INSERT OR IGNORE created a row (cur.rowcount > 0).
row_created(tbl, key) == key \notin DOMAIN tbl

\* touch_seen rewriting the row from the review just seen.
touch_seen_all_columns(row, r, now) ==
    [row EXCEPT !.last_seen_at = now, !.scraped_at = now, !.raw_json = r,
                !.text = r.text, !.stars = r.stars]

\* Lines 158-165: UPDATE ... SET last_seen_at, scraped_at, raw_json.
touch_seen(row, r, now) ==
    [row EXCEPT !.last_seen_at = now, !.scraped_at = now, !.raw_json = r]

\* The loop of _insert_ignore_then_touch_seen from review i on; st carries
\* the table, the AUTOINCREMENT counter and the two counts.
RECURSIVE upsert_loop(_, _, _, _, _, _)
upsert_loop(canonical_url, reviews, i, seed, now, st) ==
    IF i > Len(reviews) THEN st
    ELSE LET r == reviews[i] IN
         IF ~r.isdict
         THEN upsert_loop(canonical_url, reviews, i + 1, seed, now, st)
         ELSE LET key == <<canonical_url, review_id_of(r, seed)>>
                  created == row_created(st.rows, key)
                  inserted_rows ==
                      IF created
                      THEN [x \in DOMAIN st.rows \cup {key} |->
                               IF x = key THEN new_row(r, st.nextRowId, now)
                               ELSE st.rows[x]]
                      ELSE st.rows
                  touched == [inserted_rows EXCEPT ![key] = touch_seen(@, r, now)]
              IN upsert_loop(canonical_url, reviews, i + 1, seed, now,
                     [rows |-> touched,
                      nextRowId |-> IF created THEN st.nextRowId + 1 ELSE st.nextRowId,
                      inserted |-> IF created THEN st.inserted + 1 ELSE st.inserted,
                      processed |-> st.processed + 1])

\* upsert_place_reviews: the state and the counts after the call.
upsert_place_reviews(tbl, rowid, canonical_url, reviews, seed, now) ==
    IF canonical_url = "" \/ reviews = <<>>
    THEN [rows |-> tbl, nextRowId |-> rowid, inserted |-> 0, processed |-> 0]
    ELSE upsert_loop(canonical_url, reviews, 1, seed, now,
             [rows |-> tbl, nextRowId |-> rowid, inserted |-> 0, processed |-> 0])

RvA == ReviewDict("r1", "", "2024-01-01", "good", 1)
RvA2 == ReviewDict(" r1 ", "", "2024-01-01", "good, edited", 2)
RvB == ReviewDict("", "", "2024-01-02", "bad", 1)
RvC == ReviewDict("  ", "http://r/3", "2024-01-03", "ok", 1)

ReviewLists == { <<>>, <<RvA, RvA2>>, <<RvB>>, <<NotADict, RvC, RvB>> }


\* <<canonical_url, reviews>> of the calls made.
UpsertArgs ==
    {<<"", <<RvB>>>>, <<OtherPlace, <<RvA>>>>} \cup {<<Place, l>> : l \in ReviewLists}

UpsertPlaceReviews(canonical_url, reviews) ==
    LET out == upsert_place_reviews(rows, nextRowId, canonical_url, reviews,
                                    hashSeed, clock)
    IN
    /\ rows' = out.rows
    /\ nextRowId' = out.nextRowId
    /\ upserted' = upserted \cup {<<canonical_url, reviews>>}
    /\ lastCall' = Call("upsert", 0, <<canonical_url>>, "", FALSE, reviews,
                        Some(<<out.inserted, out.processed>>), 0, FALSE)
    /\ UNCHANGED <<extVars, clock, queueVars, cache, hashSeed>>

\* The process ends and a new one starts over the same database files: the
\* in-memory queue is gone and str hashes are salted afresh.
Restart ==
    /\ \E seed \in 0..MaxSeed : seed # hashSeed /\ hashSeed' = seed
    /\ tasks' = << >>
    /\ running' = << >>
    /\ workers' = << >>
    /\ UNCHANGED <<extVars, clock, nextId, cache, rows, nextRowId, upserted, lastCall>>
    /\ finished' = FinishedAfter

\* Time passing between two calls on the review store.
TickReviews ==
    /\ clock < MaxReviewClock
    /\ clock' = clock + 1
    /\ UNCHANGED <<extVars, queueVars, cache, reviewVars, lastCall>>

NextReviews ==
    \/ TickReviews
    \/ \E a \in UpsertArgs : UpsertPlaceReviews(a[1], a[2])
    \/ Restart

SpecReviews == Init /\ [][NextReviews]_vars

(***************************************************************************)
(* _apify_run_actor, and the inference call that follows a scrape.         *)
(***************************************************************************)
otherVars == <<clock, queueVars, cache, reviewVars, lastCall, analyzeVars,
               discoverVars, resolveVars, unitVars>>

\* scrape_reviews / search_places_bulk entered: the thread waits for a slot.
ApifyCall(th) ==
    /\ threads[th] = "idle"
    /\ threads' = [threads EXCEPT ![th] = "acquire"]
    /\ UNCHANGED <<sem, otherVars>>

\* Lines 155-157: _APIFY_RUN_SEM.acquire succeeds when a permit is free.
acquire(taken) == taken < _APIFY_MAX_CONCURRENT_RUNS

ApifyAcquire(th) ==
    /\ threads[th] = "acquire"
    /\ acquire(sem[th[1]])
    /\ sem' = [sem EXCEPT ![th[1]] = @ + 1]
    /\ threads' = [threads EXCEPT ![th] = "post"]
    /\ UNCHANGED otherVars

\* Lines 175-187: requests.post returns or raises; the finally block releases
\* the permit.  ok: the call produced reviews for the caller to analyse.
ApifyPostEnds(th, ok) ==
    /\ threads[th] = "post"
    /\ sem' = [sem EXCEPT ![th[1]] = @ - 1]
    /\ threads' = [threads EXCEPT ![th] =
                      IF ok /\ CallsInference(th) THEN "llm" ELSE "idle"]
    /\ UNCHANGED otherVars

\* analyse_reviews: requests.post to the chat completions endpoint, made with
\* no permit held (app.py 373-401); it returns or raises.
InferenceEnds(th) ==
    /\ threads[th] = "llm"
    /\ threads' = [threads EXCEPT ![th] = "idle"]
    /\ UNCHANGED <<sem, otherVars>>

NextGateway ==
    \/ \E th \in Threads : ApifyCall(th)
    \/ \E th \in Threads : ApifyAcquire(th)
    \/ \E th \in Threads, ok \in BOOLEAN : ApifyPostEnds(th, ok)
    \/ \E th \in Threads : InferenceEnds(th)

SpecGateway == Init /\ [][NextGateway]_vars

(***************************************************************************)
(* Properties of the task dedup queue.                                     *)
(***************************************************************************)
\* The dedupe key a task was submitted under.
DedupeKeyOfTask(task) ==
    <<normalize_input_to_canonical(task.input_raw).cache_key, task.mode>>

\* The tasks that are in the table when a call starts (records past the
\* retention window are swept first), pending or running, under the dedupe
\* key of the task the submit call returned.
LiveTasksForSubmit ==
    {t \in DOMAIN cleanup_tasks(tasks, clock) :
        /\ tasks[t].status \in {"pending", "running"}
        /\ DedupeKeyOfTask(tasks[t]) = DedupeKeyOfTask(tasks'[lastCall'.tid])}

InFlight == {t \in DOMAIN workers : workers[t].pc # "finally"}

DedupeKeyOfWorker(t) ==
    <<normalize_input_to_canonical(workers[t].input_raw).cache_key, workers[t].mode>>

\* C2: at most one analysis pipeline is in flight for a dedupe key
\* (identity_key, mode) at any time.
C2_AtMostOneInFlight ==
    \A t1, t2 \in InFlight :
        t1 # t2 => DedupeKeyOfWorker(t1) # DedupeKeyOfWorker(t2)

\* C3: a task record starts pending and its status only moves pending ->
\* running -> done or error; a done or error status never changes while the
\* record exists.
C3_StatusTransitions ==
    [][/\ \A t \in DOMAIN tasks' \ DOMAIN tasks : tasks'[t].status = "pending"
       /\ \A t \in DOMAIN tasks \cap DOMAIN tasks' :
            \/ tasks'[t].status = tasks[t].status
            \/ tasks[t].status = "pending" /\ tasks'[t].status = "running"
            \/ tasks[t].status = "running" /\ tasks'[t].status \in {"done", "error"}]_vars

\* C3 witness: one task ended done and another ended error.
C3_Witness ==
    \E t1, t2 \in DOMAIN tasks :
        tasks[t1].status = "done" /\ tasks[t2].status = "error"

\* C4: get_task_result returns a payload only for a task whose record exists
\* and is done, and the payload is the decoded cache entry stored under the
\* task's final cache key and mode; for any other task it returns None.
C4_ResultOnlyWhenDone ==
    [][IsCall("result") =>
        LET tid == lastCall'.tid
            ret == lastCall'.ret
        IN /\ ret # None =>
                /\ tid \in DOMAIN tasks'
                /\ tasks'[tid].status = "done"
                /\ <<tasks'[tid].final_cache_key, tasks'[tid].mode>> \in DOMAIN cache'
                /\ ret = Some(json_loads(
                        cache'[<<tasks'[tid].final_cache_key, tasks'[tid].mode>>].result_json))
           /\ (tid \notin DOMAIN tasks' \/ tasks'[tid].status # "done") => ret = None]_vars

\* C4 witness: get_task_result returned a payload.
C4_Witness ==
    /\ lastCall.op = "result"
    /\ lastCall.ret # None

\* The cache holds no entry a plain read at time now would return.
EntryMissingIn(c, cache_key, mode, now) ==
    \/ <<cache_key, mode>> \notin DOMAIN c
    \/ now - c[<<cache_key, mode>>].created_at > CACHE_TTL_SECONDS

EntryMissing(cache_key, mode, now) == EntryMissingIn(cache, cache_key, mode, now)

\* C5: when the result route is called for a task that is done and the cache
\* holds no visible entry under its final key and mode when the result is
\* fetched, the response is the server-side-inconsistency one (500), not
\* 404, 409 or 200.
C5_InconsistencyReported ==
    [][IsCall("route") =>
        LET tid == lastCall'.tid IN
        (/\ tid \in DOMAIN tasks
         /\ ~task_is_expired(tasks[tid], clock)
         /\ tasks[tid].status = "done"
         /\ EntryMissing(tasks[tid].final_cache_key, tasks[tid].mode, clock'))
            => lastCall'.code = 500]_vars

\* C5 witness: the route answered 500 for a task that is done.
C5_Witness ==
    /\ lastCall.op = "route"
    /\ lastCall.code = 500
    /\ lastCall.tid \in DOMAIN tasks
    /\ tasks[lastCall.tid].status = "done"

\* The tasks other than t that ran the whole pipeline to done (scrape,
\* inference, cache write) for the same input and mode as worker t, and whose
\* cache entry is still stored and within its TTL.
FullRunsBefore(t) ==
    {t1 \in DOMAIN tasks \ {t} :
        /\ tasks[t1].input_raw = workers[t].input_raw
        /\ tasks[t1].mode = workers[t].mode
        /\ tasks[t1].status = "done"
        /\ tasks[t1].infers = 1
        /\ ~EntryMissing(tasks[t1].final_cache_key, tasks[t1].mode, clock)}

\* Worker t leaves the stretch pc in this step.
StepOf(t, pc) ==
    /\ t \in DOMAIN workers
    /\ workers[t].pc = pc
    /\ t \in DOMAIN workers'
    /\ workers'[t].pc # pc

\* C6 as stated: after a first submit ran to done through cache miss ->
\* scrape -> analysis -> cache write, a second submit with the same input
\* and mode within the cache TTL completes as done from the cache at its
\* first cache check, with no scrape call and no inference call, also when
\* the first run upgraded the key.
C6_SecondRunNoScrape ==
    [][\A t \in TaskIds :
        (StepOf(t, "check") /\ t \in DOMAIN tasks /\ FullRunsBefore(t) # {})
            => /\ workers'[t].pc = "finally"
               /\ tasks'[t].status = "done"
               /\ tasks'[t].scrapes = 0
               /\ tasks'[t].infers = 0]_vars

\* C6 amended: the second run completes as done from the cache with no
\* scrape and no inference call when the first run kept its initial key;
\* when the first run upgraded the key, the second run scrapes once more and
\* completes as done from the upgraded entry, with no inference call, if its
\* scrape upgrades to the same key.  A run that writes the cache leaves the
\* entry under its final key and mode.
C6_SecondRunFromCache ==
    [][\A t \in TaskIds :
        /\ (StepOf(t, "check") /\ t \in DOMAIN tasks)
              => \A t1 \in FullRunsBefore(t) :
                    tasks[t1].final_cache_key = tasks[t1].cache_key
                      => /\ workers'[t].pc = "finally"
                         /\ tasks'[t].status = "done"
                         /\ tasks'[t].final_cache_key = tasks[t1].final_cache_key
                         /\ tasks'[t].scrapes = 0
                         /\ tasks'[t].infers = 0
        /\ (StepOf(t, "scrape") /\ t \in DOMAIN tasks /\ tasks'[t].status # "error")
              => \A t1 \in FullRunsBefore(t) :
                    (/\ tasks[t1].final_cache_key # tasks[t1].cache_key
                     /\ tasks'[t].final_cache_key = tasks[t1].final_cache_key)
                      => /\ workers'[t].pc = "finally"
                         /\ tasks'[t].status = "done"
                         /\ tasks'[t].scrapes = 1
                         /\ tasks'[t].infers = 0
        /\ (StepOf(t, "write") /\ t \in DOMAIN tasks)
              => /\ tasks'[t].status = "done"
                 /\ ~EntryMissingIn(cache', tasks'[t].final_cache_key, tasks'[t].mode, clock')
       ]_vars

\* C6 witness: a task is done without a scrape after another task ran the
\* whole pipeline for the same input and mode.
C6_Witness ==
    \E t1, t2 \in DOMAIN tasks :
        /\ t1 # t2
        /\ tasks[t1].input_raw = tasks[t2].input_raw
        /\ tasks[t1].mode = tasks[t2].mode
        /\ tasks[t1].status = "done" /\ tasks[t1].infers = 1
        /\ tasks[t2].status = "done" /\ tasks[t2].scrapes = 0

(***************************************************************************)
(* Properties of the cache store.                                          *)
(***************************************************************************)
\* What a Python value is after a round trip through JSON: a dict stays a
\* dict, a tuple comes back as a list, a value JSON cannot carry comes back
\* as its string.
ModuloSerialization(obj) ==
    CASE obj.kind = "dict" -> obj
      [] obj.kind = "tuple" -> PyValue("list", obj.v)
      [] OTHER -> PyValue("str", obj.v)

\* C7: right after put(k, m, ref, name, payload) a plain get(k, m) returns an
\* entry whose decoded payload is payload modulo serialization; the put
\* replaces the whole record and restarts the TTL; a plain get returns miss
\* exactly when no record is stored or more than TTL has passed since the
\* last put.
C7_RoundTrip ==
    [][/\ IsCall("put") =>
            LET k == lastCall'.key
                m == lastCall'.mode
                got == get_cached_analysis(cache', k, m, FALSE, clock')
            IN /\ got # None
               /\ as_result_object(got[1]) = ModuloSerialization(lastCall'.obj[3])
               /\ got[1].canonical_url = lastCall'.obj[1]
               /\ got[1].display_name = lastCall'.obj[2]
               /\ got[1].created_at = clock'
               /\ DOMAIN cache'[<<k, m>>] =
                     {"canonical_url", "display_name", "result_json", "created_at"}
       /\ (IsCall("get") /\ ~lastCall'.stale) =>
            LET sl == <<lastCall'.key, lastCall'.mode>>
            IN (lastCall'.ret = None) <=>
                  (sl \notin DOMAIN cache
                      \/ clock - cache[sl].created_at > CACHE_TTL_SECONDS)]_vars

\* C7 witness: a plain get missed on a stored record older than the TTL.
C7_Witness ==
    /\ lastCall.op = "get"
    /\ ~lastCall.stale
    /\ lastCall.ret = None
    /\ <<lastCall.key, lastCall.mode>> \in DOMAIN cache
    /\ as_result_object(cache[<<lastCall.key, lastCall.mode>>]) = PyValue("str", <<"llm", "Cafe", 3>>)

\* C8: the TTL is applied only when reading.  get with allow_stale returns
\* the stored record whatever its age, get without it returns the record
\* only while its age is within the TTL, and get leaves the table as it is:
\* a record changes or goes only by a put, a delete or a purge.
C8_TtlOnlyOnRead ==
    [][/\ IsCall("get") =>
            LET sl == <<lastCall'.key, lastCall'.mode>>
                stored == sl \in DOMAIN cache
            IN /\ cache' = cache
               /\ ~stored => lastCall'.ret = None
               /\ (stored /\ lastCall'.stale) =>
                     lastCall'.ret = Some(CacheEntry(sl[1], sl[2], cache[sl]))
               /\ (stored /\ ~lastCall'.stale) =>
                     lastCall'.ret =
                        IF clock - cache[sl].created_at <= CACHE_TTL_SECONDS
                        THEN Some(CacheEntry(sl[1], sl[2], cache[sl]))
                        ELSE None
       /\ cache' # cache =>
            /\ lastCall'.seq # lastCall.seq
            /\ lastCall'.op \in {"put", "delete", "purge"}]_vars

\* C8 witness: a get with allow_stale returned a record older than the TTL.
C8_Witness ==
    /\ lastCall.op = "get"
    /\ lastCall.stale
    /\ lastCall.ret # None
    /\ clock - lastCall.ret[1].created_at > CACHE_TTL_SECONDS

(***************************************************************************)
(* Properties of the review store.                                         *)
(***************************************************************************)
CountDicts(reviews) == Cardinality({i \in 1..Len(reviews) : reviews[i].isdict})

\* C9: upsert returns inserted_count = the number of rows that did not exist
\* before the call and exist after it, and processed_count = the number of
\* review records handled.
C9_InsertedCountsNewRows ==
    [][IsCall("upsert") =>
        /\ lastCall'.ret[1][1] = Cardinality(DOMAIN rows' \ DOMAIN rows)
        /\ lastCall'.ret[1][2] =
              IF lastCall'.key[1] = "" THEN 0 ELSE CountDicts(lastCall'.obj)]_vars

\* C9 witness: an upsert created a row and touched a row it did not create.
C9_Witness ==
    /\ lastCall.op = "upsert"
    /\ lastCall.ret[1][1] >= 1
    /\ lastCall.ret[1][1] < lastCall.ret[1][2]

\* C10: an upsert of a review list that was already upserted for the same
\* place returns inserted_count = 0 and leaves the number of rows unchanged,
\* in the same process run or in a later one.
C10_SecondUpsertInsertsNothing ==
    [][(IsCall("upsert") /\ <<lastCall'.key[1], lastCall'.obj>> \in upserted) =>
        /\ lastCall'.ret[1][1] = 0
        /\ Cardinality(DOMAIN rows') = Cardinality(DOMAIN rows)]_vars

\* The review ids an upsert of the list reviews touches under a hash seed.
ReviewIdsSeen(reviews, seed) ==
    {review_id_of(reviews[i], seed) : i \in {j \in 1..Len(reviews) : reviews[j].isdict}}

\* C11: a stored review row is never deleted and its first_seen_at, published
\* time, rating and text never change; a row changes only in an upsert that
\* re-sees its (place, review_id), and then only in last_seen_at, scraped_at
\* and raw_json; rows of another place are left as they are.
C11_StoredRowsKept ==
    [][\A k \in DOMAIN rows :
        /\ k \in DOMAIN rows'
        /\ rows'[k].id = rows[k].id
        /\ rows'[k].first_seen_at = rows[k].first_seen_at
        /\ rows'[k].published_at = rows[k].published_at
        /\ rows'[k].stars = rows[k].stars
        /\ rows'[k].text = rows[k].text
        /\ rows'[k] # rows[k] =>
              /\ IsCall("upsert")
              /\ k[1] = lastCall'.key[1]
              /\ k[2] \in ReviewIdsSeen(lastCall'.obj, hashSeed)]_vars

\* C11 witness: a row first seen earlier was re-seen by an upsert of an
\* edited review: its raw_json is the edited review, its text the first one,
\* and a row of another place is stored beside it.
C11_Witness ==
    /\ lastCall.op = "upsert"
    /\ <<OtherPlace, <<"id", "r1">>>> \in DOMAIN rows
    /\ <<Place, <<"id", "r1">>>> \in DOMAIN rows
    /\ LET row == rows[<<Place, <<"id", "r1">>>>]
       IN /\ row.first_seen_at < row.last_seen_at
          /\ row.raw_json = RvA2
          /\ row.text = "good"

(***************************************************************************)
(* services/review_store.py list_recent_reviews.                           *)
(***************************************************************************)
\* datetime(published_at) of the dates of the model, as an order.
date_rank(d) ==
    CASE d = "2024-01-01" -> 1
      [] d = "2024-01-02" -> 2
      [] d = "2024-01-03" -> 3
      [] d = "2024-01-04" -> 4
      [] OTHER -> 0

\* ORDER BY id DESC alone: the first row.
newest_by_id(keys, tbl) ==
    CHOOSE k \in keys : \A k2 \in keys \ {k} : tbl[k].id > tbl[k2].id

\* ORDER BY datetime(published_at) DESC, id DESC: the first row.
newest(keys, tbl) ==
    CHOOSE k \in keys : \A k2 \in keys \ {k} :
        \/ date_rank(tbl[k].published_at) > date_rank(tbl[k2].published_at)
        \/ /\ date_rank(tbl[k].published_at) = date_rank(tbl[k2].published_at)
           /\ tbl[k].id > tbl[k2].id

RECURSIVE recent(_, _, _)
recent(keys, tbl, limit) ==
    IF keys = {} \/ limit = 0 THEN <<>>
    ELSE LET k == newest(keys, tbl)
         IN <<tbl[k].raw_json>> \o recent(keys \ {k}, tbl, limit - 1)

\* The stored reviews of a place, newest first, at most limit of them; each
\* is the decoded raw_json of its row.
list_recent_reviews(tbl, canonical_url, limit) ==
    IF canonical_url = "" THEN <<>>
    ELSE recent({k \in DOMAIN tbl : k[1] = canonical_url}, tbl,
                IF limit < 1 THEN 1 ELSE IF limit > 500 THEN 500 ELSE limit)

(***************************************************************************)
(* services/place_store.py update_catalog_analyze_status and               *)
(* services/job_store.py create_job, update_job.                           *)
(***************************************************************************)
update_catalog_analyze_status(cat, canonical_url, status, error) ==
    [cat EXCEPT ![canonical_url] = [status |-> status, error |-> error]]

create_job(id, total) ==
    [id |-> id, status |-> "running", total |-> total, done |-> 0,
     failed |-> 0, skipped |-> 0]

update_job(j, status, done, failed, skipped) ==
    [j EXCEPT !.status = status, !.done = done, !.failed = failed,
              !.skipped = skipped]

(***************************************************************************)
(* scripts/build_xinyi_db.py analyze_catalog and _process_one.             *)
(*                                                                         *)
(* Every invocation is a process of its own.  A step of _process_one takes *)
(* a fault: "none", "op" (the step's operation raises) or "handler" (the   *)
(* operation raises and so does the status write of the except block).     *)
(* canonicalize does not raise on the items of the model, so cache_key is  *)
(* never missing.                                                          *)
(***************************************************************************)
\* An exception message: what it says and how many characters it has.
Msg(text, len) == [text |-> text, len |-> len]

NoReviewsError == Msg("no reviews returned from Apify", 30)
ApifyError == Msg("Apify actor call failed", 400)
StoreError == Msg("database is locked", 18)
InferenceError == Msg("Model response parse failed", 350)

\* str(e)[:300]
truncate(msg, n) == [msg EXCEPT !.len = IF @ > n THEN n ELSE @]

RvD == ReviewDict("r2", "", "2024-01-04", "new", 4)

\* What scrape_reviews returns to _process_one.
AnalyzePages == { <<>>, <<RvA>>, <<RvD>> }

Faults == {"none", "op", "handler"}

AnalyzeMode == "quick"

\* analyse_reviews: the analysis of the reviews it is given.
analyse_reviews(reviews_for_ai) ==
    PyValue("dict", <<"gemini", reviews_for_ai, Len(reviews_for_ai)>>)

analyzeOther ==
    <<clock, queueVars, upserted, lastCall, gatewayVars, discoverVars, resolveVars,
      unitVars>>

\* analyze_catalog up to the submission of the futures: a new process lists
\* the items of the tag, creates the job and submits every item.  resumed is
\* history: the items a killed run left in status running.
StartRun(force_refresh, seed) ==
    /\ run.n < MaxRuns
    /\ \/ run.pc \in {"idle", "returned"}
       \/ /\ run.pc = "aborted"
          /\ \A i \in CatalogItems : items[i].pc \in {"returned", "raised", "collected"}
    /\ hashSeed' = seed
    /\ items' = [i \in CatalogItems |-> [IdleItem EXCEPT !.pc = "queued"]]
    /\ run' = [pc |-> "running", n |-> run.n + 1, force_refresh |-> force_refresh,
               done_n |-> 0, analyzed |-> 0, skipped |-> 0, failed |-> 0,
               resumed |-> IF run.n > 0 /\ run.pc = "idle"
                           THEN {i \in CatalogItems : catalog[i].status = "running"}
                           ELSE {}]
    /\ job' = create_job(run.n + 1, Cardinality(CatalogItems))
    /\ UNCHANGED <<analyzeOther, cache, rows, nextRowId, catalog>>

\* The process is killed while the run is going: its threads are gone, what
\* was written to the stores stays.
BatchCrash ==
    /\ run.pc = "running"
    /\ run' = [run EXCEPT !.pc = "idle"]
    /\ items' = [i \in CatalogItems |-> IdleItem]
    /\ UNCHANGED <<analyzeOther, hashSeed, cache, rows, nextRowId, catalog, job>>

\* The except block of _process_one: the error status write with the
\* message cut to 300 characters, or the write raising in its turn.
HandleException(i, msg, fault) ==
    IF fault = "handler"
    THEN /\ items' = [items EXCEPT ![i].pc = "raised"]
         /\ UNCHANGED catalog
    ELSE /\ catalog' = update_catalog_analyze_status(catalog, i, "error",
                            Some(truncate(msg, ERROR_MAX_CHARS)))
         /\ items' = [items EXCEPT ![i].pc = "returned", ![i].result = "failed"]

\* ItemStart going on to the scrape with no status write.
ItemStart_no_write(i, fault) ==
    /\ items[i].pc = "queued"
    /\ fault = "none"
    /\ items' = [items EXCEPT ![i].pc = "scrape"]
    /\ UNCHANGED <<analyzeOther, hashSeed, cache, rows, nextRowId, run, job, catalog>>

\* Lines 622-655: the status write "running", made outside the try block.
ItemStart(i, fault) ==
    /\ items[i].pc = "queued"
    /\ fault \in {"none", "op"}
    /\ IF fault = "none"
       THEN /\ catalog' = update_catalog_analyze_status(catalog, i, "running", None)
            /\ items' = [items EXCEPT ![i].pc = "scrape"]
       ELSE /\ items' = [items EXCEPT ![i].pc = "raised"]
            /\ UNCHANGED catalog
    /\ UNCHANGED <<analyzeOther, hashSeed, cache, rows, nextRowId, run, job>>

\* Lines 669-682: scrape_reviews returns a page or raises; an empty page is
\* raised as an error.
ItemScrape(i, page, fault) ==
    /\ items[i].pc = "scrape"
    /\ fault # "none" => page = <<>>
    /\ LET counted == [items EXCEPT ![i].scrapes = @ + 1] IN
       IF fault = "none" /\ page # <<>>
       THEN /\ items' = [counted EXCEPT ![i].pc = "merge", ![i].reviews = page]
            /\ UNCHANGED catalog
       ELSE /\ catalog' = IF fault = "handler" THEN catalog
                          ELSE update_catalog_analyze_status(catalog, i, "error",
                                  Some(truncate(IF fault = "none" THEN NoReviewsError
                                                ELSE ApifyError, ERROR_MAX_CHARS)))
            /\ items' = IF fault = "handler"
                        THEN [counted EXCEPT ![i].pc = "raised"]
                        ELSE [counted EXCEPT ![i].pc = "returned", ![i].result = "failed"]
    /\ UNCHANGED <<analyzeOther, hashSeed, cache, rows, nextRowId, run, job>>

\* ItemMerge taking the second count of the merge, the reviews processed,
\* for the first, the reviews inserted.
ItemMerge_processed_count(i, fault) ==
    LET out == upsert_place_reviews(rows, nextRowId, i, items[i].reviews,
                                    hashSeed, clock)
        cached_entry_allow_stale ==
            get_cached_analysis(cache, canonicalize(urlparse(i)).cache_key, AnalyzeMode,
                                TRUE, clock)
        skip == /\ ~run.force_refresh
                /\ cached_entry_allow_stale # None
                /\ out.processed = 0
    IN
    /\ items[i].pc = "merge"
    /\ IF fault = "none"
       THEN /\ rows' = out.rows
            /\ nextRowId' = out.nextRowId
            /\ IF skip
               THEN /\ catalog' = update_catalog_analyze_status(
                                      catalog, i, "skipped_no_new_reviews", None)
                    /\ items' = [items EXCEPT ![i].pc = "returned",
                                              ![i].result = "skipped",
                                              ![i].inserted_new = out.inserted]
               ELSE /\ items' = [items EXCEPT ![i].pc = "llm",
                                              ![i].inserted_new = out.inserted]
                    /\ UNCHANGED catalog
       ELSE /\ HandleException(i, StoreError, fault)
            /\ UNCHANGED <<rows, nextRowId>>
    /\ UNCHANGED <<analyzeOther, hashSeed, cache, run, job>>

\* Lines 684-702: the merge into the review store, the cache lookup with
\* allow_stale and the skip decision.
ItemMerge(i, fault) ==
    LET out == upsert_place_reviews(rows, nextRowId, i, items[i].reviews,
                                    hashSeed, clock)
        cached_entry_allow_stale ==
            get_cached_analysis(cache, canonicalize(urlparse(i)).cache_key, AnalyzeMode,
                                TRUE, clock)
        skip == /\ ~run.force_refresh
                /\ cached_entry_allow_stale # None
                /\ out.inserted = 0
    IN
    /\ items[i].pc = "merge"
    /\ IF fault = "none"
       THEN /\ rows' = out.rows
            /\ nextRowId' = out.nextRowId
            /\ IF skip
               THEN /\ catalog' = update_catalog_analyze_status(
                                      catalog, i, "skipped_no_new_reviews", None)
                    /\ items' = [items EXCEPT ![i].pc = "returned",
                                              ![i].result = "skipped",
                                              ![i].inserted_new = out.inserted]
               ELSE /\ items' = [items EXCEPT ![i].pc = "llm",
                                              ![i].inserted_new = out.inserted]
                    /\ UNCHANGED catalog
       ELSE /\ HandleException(i, StoreError, fault)
            /\ UNCHANGED <<rows, nextRowId>>
    /\ UNCHANGED <<analyzeOther, hashSeed, cache, run, job>>

\* ItemInfer handing the scraped page to analyse_reviews.
ItemInfer_scraped_page(i, fault) ==
    LET reviews_for_ai == items[i].reviews IN
    /\ items[i].pc = "llm"
    /\ fault = "none"
    /\ items' = [items EXCEPT ![i].pc = "write", ![i].infers = @ + 1,
                              ![i].window = reviews_for_ai,
                              ![i].analysis = Some(analyse_reviews(reviews_for_ai))]
    /\ UNCHANGED <<analyzeOther, hashSeed, cache, rows, nextRowId, run, job, catalog>>

\* Lines 704-717: the recency window is read from the review store and
\* handed to analyse_reviews, which returns or raises.
ItemInfer(i, fault) ==
    LET reviews_for_ai == list_recent_reviews(rows, i, MaxReviews) IN
    /\ items[i].pc = "llm"
    /\ IF fault = "none"
       THEN /\ items' = [items EXCEPT ![i].pc = "write", ![i].infers = @ + 1,
                                      ![i].window = reviews_for_ai,
                                      ![i].analysis = Some(analyse_reviews(reviews_for_ai))]
            /\ UNCHANGED catalog
       ELSE /\ catalog' = IF fault = "handler" THEN catalog
                          ELSE update_catalog_analyze_status(catalog, i, "error",
                                  Some(truncate(InferenceError, ERROR_MAX_CHARS)))
            /\ items' = [items EXCEPT
                            ![i].pc = IF fault = "handler" THEN "raised" ELSE "returned",
                            ![i].result = IF fault = "handler" THEN @ ELSE "failed",
                            ![i].infers = @ + 1,
                            ![i].window = reviews_for_ai]
    /\ UNCHANGED <<analyzeOther, hashSeed, cache, rows, nextRowId, run, job>>

\* Lines 719-749: the cache write and the status write "done".
ItemWrite(i, fault) ==
    /\ items[i].pc = "write"
    /\ IF fault = "none"
       THEN /\ cache' = set_cached_analysis(cache, canonicalize(urlparse(i)).cache_key,
                            AnalyzeMode, i, canonicalize(urlparse(i)).display_name,
                            items[i].analysis[1], clock)
            /\ catalog' = update_catalog_analyze_status(catalog, i, "done", None)
            /\ items' = [items EXCEPT ![i].pc = "returned", ![i].result = "analyzed"]
       ELSE /\ HandleException(i, StoreError, fault)
            /\ UNCHANGED cache
    /\ UNCHANGED <<analyzeOther, hashSeed, rows, nextRowId, run, job>>

\* Lines 773-795: the main thread takes a finished future: the counts and
\* the job record are updated.
Collect(i) ==
    /\ run.pc = "running"
    /\ items[i].pc = "returned"
    /\ items' = [items EXCEPT ![i].pc = "collected"]
    /\ LET r == items[i].result
           run2 == [run EXCEPT !.done_n = @ + 1,
                        !.analyzed = IF r = "analyzed" THEN @ + 1 ELSE @,
                        !.skipped = IF r = "skipped" THEN @ + 1 ELSE @,
                        !.failed = IF r \notin {"analyzed", "skipped"} THEN @ + 1 ELSE @]
       IN /\ run' = run2
          /\ job' = update_job(job, "running", run2.done_n, run2.failed, run2.skipped)
    /\ UNCHANGED <<analyzeOther, hashSeed, cache, rows, nextRowId, catalog>>

\* Line 777: fut.result() raises what _process_one raised; nothing catches
\* it, the loop is left and analyze_catalog raises once the pool has shut down.
CollectRaised(i) ==
    /\ run.pc = "running"
    /\ items[i].pc = "raised"
    /\ run' = [run EXCEPT !.pc = "aborted"]
    /\ UNCHANGED <<analyzeOther, hashSeed, cache, rows, nextRowId, catalog, items, job>>

\* Lines 807-815: every future was taken: the job is marked done.
RunFinish ==
    /\ run.pc = "running"
    /\ \A i \in CatalogItems : items[i].pc = "collected"
    /\ run' = [run EXCEPT !.pc = "returned"]
    /\ job' = update_job(job, "done", Cardinality(CatalogItems), run.failed, run.skipped)
    /\ UNCHANGED <<analyzeOther, hashSeed, cache, rows, nextRowId, catalog, items>>

NextAnalyze ==
    \/ \E f \in BOOLEAN, seed \in 0..MaxSeed : StartRun(f, seed)
    \/ BatchCrash
    \/ \E i \in CatalogItems, fault \in Faults : ItemStart(i, fault)
    \/ \E i \in CatalogItems, page \in AnalyzePages, fault \in Faults :
          ItemScrape(i, page, fault)
    \/ \E i \in CatalogItems, fault \in Faults : ItemMerge(i, fault)
    \/ \E i \in CatalogItems, fault \in Faults : ItemInfer(i, fault)
    \/ \E i \in CatalogItems, fault \in Faults : ItemWrite(i, fault)
    \/ \E i \in CatalogItems : Collect(i)
    \/ \E i \in CatalogItems : CollectRaised(i)
    \/ RunFinish

SpecAnalyze == Init /\ [][NextAnalyze]_vars

(***************************************************************************)
(* Properties of the external-call gateway.                                *)
(***************************************************************************)
ScrapesInFlight == {th \in Threads : threads[th] = "post"}
InferencesInFlight == {th \in Threads : threads[th] = "llm"}

\* C12: the number of scrape/place-search calls in flight at the external
\* provider never exceeds the configured ceiling, counted over all call
\* sites together.
C12_ScrapesWithinCeiling ==
    Cardinality(ScrapesInFlight) <= _APIFY_MAX_CONCURRENT_RUNS

\* C13: the number of external calls in flight, scrape calls and inference
\* calls counted together, never exceeds the admission ceiling.
C13_ExternalCallsWithinCeiling ==
    Cardinality(ScrapesInFlight \cup InferencesInFlight) <= _APIFY_MAX_CONCURRENT_RUNS

(***************************************************************************)
(* scripts/build_xinyi_db.py discover_xinyi_places.                        *)
(*                                                                         *)
(* A batch is "unsubmitted", "queued" (a pending future), "running"        *)
(* (search_places_bulk in flight), finished as "ok", "quota" (402 memory   *)
(* limit) or "error" (any other exception), and then "persisted" or        *)
(* "failed" once the main thread has dealt with it, or "cancelled".        *)
(* A search result is identified by the canonical URL of a candidate that  *)
(* passes the district filters of _upsert_items.                           *)
(***************************************************************************)
Outcomes == {"ok", "quota", "error"}

\* The batches whose fetch the external service may fail.
FailingBatches == {3, 4}

\* What the fetch of batch b can end with.
OutcomesOf(b) == IF b \in FailingBatches THEN Outcomes ELSE {"ok"}

WorkerCounts == {1, 2, 3}

discoverOther ==
    <<clock, queueVars, cache, reviewVars, lastCall, gatewayVars, items, run,
      resolveVars, unitVars>>

\* A candidate that is not in the catalog before the run.
NewPlace == "https://www.google.com/maps/place/Deli"

\* What search_places_bulk returns for batch b once the filters of lines
\* 275-293 are applied.
BatchItems(b) ==
    IF b = 1 THEN {Place}
    ELSE IF b = 2 THEN {Place, OtherPlace}
    ELSE IF b = 3 THEN {NewPlace}
    ELSE {OtherPlace, NewPlace}

\* place_store.upsert_catalog_place: INSERT ... ON CONFLICT (tag,
\* canonical_url) DO UPDATE keeps the analysis columns of a row that exists
\* and inserts a row with none otherwise.
upsert_catalog_place(cat, canonical_url) ==
    IF canonical_url \in DOMAIN cat THEN cat
    ELSE [u \in DOMAIN cat \cup {canonical_url} |->
             IF u = canonical_url THEN [status |-> "pending", error |-> None]
             ELSE cat[u]]

\* The candidates of a batch that _upsert_items passes to
\* upsert_catalog_place: those not yet in seen_canonical (lines 295-297).
FirstSeen(d, b) == BatchItems(b) \ d.seen_canonical

\* Lines 262-314: every candidate first seen in this run is upserted and
\* counted in new_count, whether or not the catalog already had it.
_upsert_items(d, b) ==
    [d EXCEPT !.seen_canonical = @ \cup BatchItems(b),
              !.new_count = @ + Cardinality(FirstSeen(d, b))]

RECURSIVE UpsertAll(_, _)
UpsertAll(cat, urls) ==
    IF urls = {} THEN cat
    ELSE LET u == CHOOSE x \in urls : TRUE
         IN UpsertAll(upsert_catalog_place(cat, u), urls \ {u})

\* Lines 407 and 509: the early-stop test after a batch.
early_stop_strict(d) ==
    d.max_upserts # None /\ d.new_count > d.max_upserts[1]

early_stop(d) ==
    d.max_upserts # None /\ d.new_count >= d.max_upserts[1]

EarlyStopReason == Some("early stop")

\* Lines 349-351.
_is_apify_memory_limit_error(outcome) == outcome = "quota"

\* Lines 209-350: the job is created; in parallel mode every batch is
\* submitted to the pool before the first result is read (432-434).
StartDiscoverUpTo(w, max_upserts) ==
    /\ disc.pc = "idle"
    /\ run.pc = "idle"
    /\ disc' = [IdleDiscovery EXCEPT !.pc = "running", !.workers = w,
                                     !.max_upserts = max_upserts]
    /\ job' = create_job(job.id + 1, NumBatches)
    /\ batches' = [b \in Batches |-> IF w <= 1 THEN "unsubmitted" ELSE "queued"]
    /\ UNCHANGED <<discoverOther, catalog>>

\* max_upserts at its default, None.
StartDiscover(w) == StartDiscoverUpTo(w, None)

\* Lines 356-374: sequential mode calls search_places_bulk for the next batch.
SeqCall(b) ==
    /\ disc.pc = "running"
    /\ disc.workers <= 1
    /\ b = disc.done_batches + 1
    /\ batches[b] = "unsubmitted"
    /\ batches' = [batches EXCEPT ![b] = "running"]
    /\ UNCHANGED <<discoverOther, catalog, disc, job>>

\* Lines 368-410: the call returns and the batch is upserted and recorded,
\* or the call raises: nothing catches the exception (the try at 353 has
\* only a finally), so it leaves discover_xinyi_places.
SeqReturn(b, outcome) ==
    /\ disc.pc = "running"
    /\ disc.workers <= 1
    /\ batches[b] = "running"
    /\ IF outcome = "ok"
       THEN LET d == [_upsert_items(disc, b) EXCEPT !.done_batches = b]
            IN /\ batches' = [batches EXCEPT ![b] = "persisted"]
               /\ catalog' = UpsertAll(catalog, FirstSeen(disc, b))
               /\ job' = update_job(job, "running", b, disc.failed_batches, 0)
               /\ disc' = IF early_stop(d)
                           THEN [d EXCEPT !.abort_reason = EarlyStopReason,
                                          !.pc = "returned"]
                           ELSE d
       ELSE /\ batches' = [batches EXCEPT ![b] = outcome]
            /\ disc' = [disc EXCEPT !.pc = "raised"]
            /\ UNCHANGED <<job, catalog>>
    /\ UNCHANGED discoverOther

\* A pool thread takes the oldest pending future; the pool runs at most
\* max_workers fetches at a time.
PoolDispatch(b) ==
    /\ disc.pc \in {"running", "draining"}
    /\ disc.workers > 1
    /\ batches[b] = "queued"
    /\ \A c \in Batches : c < b => batches[c] # "queued"
    /\ Cardinality({c \in Batches : batches[c] = "running"}) < disc.workers
    /\ batches' = [batches EXCEPT ![b] = "running"]
    /\ UNCHANGED <<discoverOther, catalog, disc, job>>

\* Lines 420-430: _fetch_one returns or raises in its pool thread; the
\* future joins the finished futures that as_completed yields in the order
\* of completion.
PoolReturn(b, outcome) ==
    /\ disc.pc \in {"running", "draining"}
    /\ disc.workers > 1
    /\ batches[b] = "running"
    /\ batches' = [batches EXCEPT ![b] = outcome]
    /\ disc' = [disc EXCEPT !.finished = Append(@, b)]
    /\ UNCHANGED <<discoverOther, catalog, job>>

\* Lines 435-503: as_completed hands a finished future to the main thread.
\* A result is upserted and counted; an exception is counted as failed, and
\* a memory-limit exception also cancels the pending futures, marks the job
\* error and leaves the loop, whereupon the pool is shut down with wait.
PoolCollect(b) ==
    /\ disc.pc = "running"
    /\ disc.workers > 1
    /\ disc.finished # <<>> /\ b = Head(disc.finished)
    /\ IF batches[b] = "ok"
       THEN LET d == [_upsert_items(disc, b) EXCEPT !.done_batches = @ + 1,
                                                    !.finished = Tail(@)]
            IN /\ catalog' = UpsertAll(catalog, FirstSeen(disc, b))
               /\ IF early_stop(d)
                  THEN /\ batches' = [c \in Batches |->
                                         IF c = b THEN "persisted"
                                         ELSE IF batches[c] = "queued"
                                         THEN "cancelled"
                                         ELSE batches[c]]
                       /\ disc' = [d EXCEPT !.abort_reason = EarlyStopReason,
                                            !.pc = "draining"]
                       /\ job' = update_job(job, "done", d.done_batches,
                                            d.failed_batches, 0)
                  ELSE /\ batches' = [batches EXCEPT ![b] = "persisted"]
                       /\ disc' = d
                       /\ job' = update_job(job, "running", d.done_batches,
                                            d.failed_batches, 0)
       ELSE IF _is_apify_memory_limit_error(batches[b])
       THEN /\ batches' = [c \in Batches |->
                              IF c = b THEN "failed"
                              ELSE IF batches[c] = "queued" THEN "cancelled"
                              ELSE batches[c]]
            /\ disc' = [disc EXCEPT !.done_batches = @ + 1,
                                    !.failed_batches = @ + 1,
                                    !.abort_reason = Some("memory limit"),
                                    !.pc = "draining",
                                    !.finished = Tail(@)]
            /\ job' = update_job(job, "error", disc.done_batches + 1,
                                 disc.failed_batches + 1, 0)
            /\ UNCHANGED catalog
       ELSE /\ batches' = [batches EXCEPT ![b] = "failed"]
            /\ disc' = [disc EXCEPT !.done_batches = @ + 1,
                                    !.failed_batches = @ + 1,
                                    !.finished = Tail(@)]
            /\ job' = update_job(job, "running", disc.done_batches + 1,
                                 disc.failed_batches + 1, 0)
            /\ UNCHANGED catalog
    /\ UNCHANGED discoverOther

\* Lines 431, 524-529: ThreadPoolExecutor.__exit__ waits for the fetches
\* still running; with an abort reason the function returns with no
\* further job update.
PoolExit ==
    /\ disc.pc = "draining"
    /\ \A b \in Batches : batches[b] \notin {"queued", "running"}
    /\ disc' = [disc EXCEPT !.pc = "returned"]
    /\ UNCHANGED <<discoverOther, catalog, batches, job>>

\* Lines 531-540: every batch was dealt with and the job is marked done.
DiscoverFinish ==
    /\ disc.pc = "running"
    /\ \A b \in Batches : batches[b] \in {"persisted", "failed"}
    /\ disc' = [disc EXCEPT !.pc = "returned"]
    /\ job' = update_job(job, "done", NumBatches, disc.failed_batches, job.skipped)
    /\ UNCHANGED <<discoverOther, catalog, batches>>

NextDiscover ==
    \/ \E w \in WorkerCounts : StartDiscover(w)
    \/ \E b \in Batches : SeqCall(b)
    \/ \E b \in Batches : \E outcome \in OutcomesOf(b) : SeqReturn(b, outcome)
    \/ \E b \in Batches : PoolDispatch(b)
    \/ \E b \in Batches : \E outcome \in OutcomesOf(b) : PoolReturn(b, outcome)
    \/ \E b \in Batches : PoolCollect(b)
    \/ PoolExit
    \/ DiscoverFinish

SpecDiscover == Init /\ [][NextDiscover]_vars

\* The values of --discover-max-upserts of the runs with an early-stop
\* threshold, and their worker counts.
UpsertLimits == {1, 2, 4}

EarlyStopWorkers == {1, 2}

NextEarlyStop ==
    \/ \E w \in EarlyStopWorkers : \E n \in UpsertLimits :
          StartDiscoverUpTo(w, Some(n))
    \/ \E b \in Batches : SeqCall(b)
    \/ \E b \in Batches : \E outcome \in OutcomesOf(b) : SeqReturn(b, outcome)
    \/ \E b \in Batches : PoolDispatch(b)
    \/ \E b \in Batches : \E outcome \in OutcomesOf(b) : PoolReturn(b, outcome)
    \/ \E b \in Batches : PoolCollect(b)
    \/ PoolExit
    \/ DiscoverFinish

SpecEarlyStop == Init /\ [][NextEarlyStop]_vars

(***************************************************************************)
(* Properties of the catalog analysis.                                     *)
(***************************************************************************)
ItemKey(i) == <<canonicalize(urlparse(i)).cache_key, AnalyzeMode>>

HasCacheEntry(i) == ItemKey(i) \in DOMAIN cache

\* In this step the scrape of item i returned an empty page.
EmptyScrape(i) ==
    /\ items[i].pc = "scrape"
    /\ items'[i].pc = "returned"
    /\ catalog'[i].error = Some(truncate(NoReviewsError, ERROR_MAX_CHARS))

\* In this step the merge of item i's page returned and the skip decision
\* was taken.
MergeDone(i) ==
    /\ items[i].pc = "merge"
    /\ items'[i].pc = "llm" \/ items'[i].result = "skipped"

\* What the claim asks of a skipped item.
Skipped(i) ==
    /\ catalog'[i].status = "skipped_no_new_reviews"
    /\ items'[i].result = "skipped"
    /\ items'[i].infers = 0
    /\ cache' = cache

PageStored(i) ==
    \A k \in 1..Len(items[i].reviews) :
        <<i, review_id_of(items[i].reviews[k], hashSeed)>> \in DOMAIN rows

C17_ItemFailureIsolated ==
    /\ run.pc # "aborted"
    /\ \A i \in CatalogItems : items[i].pc # "raised"

QuotaAtBatch3 ==
    /\ disc.pc \in {"returned", "raised"}
    /\ batches[4] \notin {"quota", "error", "failed"}
    /\ \/ batches[3] = "quota"
       \/ batches[3] = "failed" /\ disc.abort_reason # None

\* C16: in a discovery run of 10 batches in which batch 3 fails with a
\* quota-exhaustion error, whatever the worker count, the candidates of
\* batches 1 and 2 are persisted, batch 3 is recorded as failed on the job,
\* and batches 4 to 10 are never dispatched.
C16_QuotaAbort ==
    QuotaAtBatch3 =>
        /\ batches[1] = "persisted" /\ batches[2] = "persisted"
        /\ job.failed = 1
        /\ \A b \in 4..NumBatches : batches[b] \in {"unsubmitted", "queued", "cancelled"}

(***************************************************************************)
(* Properties of the job record.                                           *)
(***************************************************************************)
\* A step that writes the job record creates a job, running with counters
\* at zero, or updates the current one: no counter decreases,
\* failed + skipped <= done <= total, and the status is running, done or error.
JobUpdateSound ==
    job' # job =>
        IF job'.id # job.id
        THEN /\ job'.status = "running"
             /\ job'.done = 0 /\ job'.failed = 0 /\ job'.skipped = 0
        ELSE /\ job'.done >= job.done
             /\ job'.failed >= job.failed
             /\ job'.skipped >= job.skipped
             /\ job'.failed + job'.skipped <= job'.done
             /\ job'.done <= job'.total
             /\ job'.total = job.total
             /\ job'.status \in {"running", "done", "error"}

\* In this step the main loop of analyze_catalog takes the future of item i,
\* which has returned or raised.
FutureTaken(i) ==
    /\ run.pc = "running"
    /\ \/ items[i].pc = "returned" /\ items'[i].pc = "collected"
       \/ items[i].pc = "raised" /\ run'.pc = "aborted"

\* C19: during a job the counters done, failed and skipped never decrease,
\* failed + skipped <= done <= total holds at every update, the status is
\* running, done or error, and the record is updated after every item
\* completion: done grows by one when the main loop takes an item's future.
C19_JobProgress ==
    [][/\ JobUpdateSound
       /\ \A i \in CatalogItems :
            FutureTaken(i) => job'.done = job.done + 1]_vars

(***************************************************************************)
(* Properties of submit after a task has ended.                            *)
(***************************************************************************)
\* The key of the submit made in this step.
SubmittedKey == TaskKey(tasks'[lastCall'.tid])

\* A task of key k has ended and no submit for k was made since.
EndedUnanswered(k) ==
    \E x \in finished : x \in DOMAIN tasks /\ TaskKey(tasks[x]) = k

\* A task of key k is pending or running.
Live(k) ==
    \E y \in DOMAIN tasks :
        TaskKey(tasks[y]) = k /\ tasks[y].status \in {"pending", "running"}

\* The submit of this step created a task with a new id and scheduled a worker.
CreatedNew ==
    /\ lastCall'.tid \notin DOMAIN tasks
    /\ lastCall'.tid \in DOMAIN tasks'
    /\ tasks'[lastCall'.tid].status = "pending"
    /\ lastCall'.scheduled
    /\ lastCall'.tid \in DOMAIN workers' /\ lastCall'.tid \notin DOMAIN workers

QueueCall == IsCall("submit") \/ IsCall("status") \/ IsCall("result")

\* Task t was created at some time and its record is gone.
Removed(t) == t < nextId /\ t \notin DOMAIN tasks

\* C21: once the age of a task exceeds the retention window, the next
\* submit, status or result call removes its record, whatever its status;
\* status of a task whose age exceeds the window or whose record was removed
\* returns none; and no step, a step of the task's worker included, brings
\* back a record that was removed.
C21_ExpiredRecordRemoved ==
    [][\A t \in TaskIds :
        /\ (QueueCall /\ t \in DOMAIN tasks /\ task_is_expired(tasks[t], clock))
              => /\ t \notin DOMAIN tasks'
                 /\ \A dk \in DOMAIN running' : running'[dk] # t
        /\ (IsCall("status") /\ lastCall'.tid = t
              /\ (Removed(t) \/ (t \in DOMAIN tasks /\ task_is_expired(tasks[t], clock))))
              => lastCall'.ret = None
        /\ Removed(t) => t \notin DOMAIN tasks']_vars

\* C21 witness: status has returned none for a task that was removed while
\* running, and the task's worker has gone on to the end of its pipeline.
C21_Witness ==
    \E t \in DOMAIN workers :
        /\ Removed(t)
        /\ workers[t].pc = "finally"
        /\ lastCall.op = "status" /\ lastCall.tid = t /\ lastCall.ret = None

(***************************************************************************)
(* Properties of the dedupe map.                                           *)
(***************************************************************************)
\* C22 as stated: every entry of the dedupe map points at a task record
\* that exists and is pending or running.
C22_DedupeEntriesLive ==
    \A dk \in DOMAIN running :
        /\ running[dk] \in DOMAIN tasks
        /\ tasks[running[dk]].status \in {"pending", "running"}

\* C22 amended: every entry of the dedupe map points, under the task's own
\* key, at a task record that exists and is pending or running, or is done
\* or error while its worker has not yet returned; once the worker of a
\* task has returned or its record has been removed no entry points at it.
C22_DedupeEntriesOwned ==
    \A dk \in DOMAIN running :
        /\ running[dk] \in DOMAIN tasks
        /\ TaskKey(tasks[running[dk]]) = dk
        /\ \/ tasks[running[dk]].status \in {"pending", "running"}
           \/ /\ Terminated(tasks[running[dk]])
              /\ running[dk] \in DOMAIN workers
              /\ workers[running[dk]].pc = "finally"

\* C22 witness: a task is done and the entry of its key still points at it,
\* its worker being about to enter the finally block.
C22_Witness ==
    \E dk \in DOMAIN running :
        /\ running[dk] \in DOMAIN tasks \cap DOMAIN workers
        /\ tasks[running[dk]].status = "done"
        /\ workers[running[dk]].pc = "finally"

(***************************************************************************)
(* Properties of the worker pool.                                          *)
(***************************************************************************)
RunningTasks == {t \in DOMAIN tasks : tasks[t].status = "running"}

\* At most MAX_WORKERS tasks are running, and a pending task becomes
\* running only when fewer than MAX_WORKERS work items are being run.
PoolBounded ==
    /\ Cardinality(RunningTasks) <= MAX_WORKERS
    /\ \A t \in DOMAIN tasks :
          (tasks[t].status = "pending" /\ t \in DOMAIN tasks'
              /\ tasks'[t].status = "running")
             => Cardinality(ActiveWorkers) < MAX_WORKERS

\* C23: submit returns the task it created in state pending; at most 3
\* tasks are running at any time, and a further task stays pending until a
\* worker is free.
C23_SubmitReturnsPending ==
    [][/\ IsCall("submit_return") => lastCall'.obj.v[1] = "pending"
       /\ PoolBounded]_vars

(***************************************************************************)
(* Properties of the refresh entry point.                                  *)
(***************************************************************************)
\* C24: a submit with force_refresh, as issued by the refresh entry point,
\* is accepted: the call does not fail and returns a task.
C24_RefreshAccepted ==
    [][IsCall("refresh") => (lastCall'.code = 200 /\ lastCall'.ret # None)]_vars

(***************************************************************************)
(* Properties of the early stop of discovery.                              *)
(***************************************************************************)
EarlyStopped == disc.abort_reason = EarlyStopReason

\* The catalog rows that the run inserted: those absent before it.
NewlyInserted == DOMAIN catalog \ CatalogItems

\* C25 (as stated): when discovery stops early at threshold N, at least N
\* catalog rows have been newly inserted in the run, rows that existed in
\* the catalog before not being counted.
C25_EarlyStopOnNewRows ==
    EarlyStopped => Cardinality(NewlyInserted) >= disc.max_upserts[1]

\* C25 (amended): new_count is the number of distinct candidates upserted
\* in the run, already catalogued or not; the run goes on while it is below
\* N and stops early only when it has reached N; after the early stop no
\* batch is dispatched or persisted; a persisted batch stays persisted with
\* its candidates in the catalog.
C25_EarlyStopOnUpserts ==
    [][/\ disc'.new_count = Cardinality(disc'.seen_canonical)
       /\ disc'.seen_canonical \subseteq DOMAIN catalog'
       /\ (disc'.max_upserts # None /\ disc'.pc = "running")
             => disc'.new_count < disc'.max_upserts[1]
       /\ disc'.abort_reason = EarlyStopReason
             => disc'.new_count >= disc'.max_upserts[1]
       /\ EarlyStopped
             => \A b \in Batches :
                   batches'[b] \in {"running", "persisted"}
                      => batches'[b] = batches[b]
       /\ \A b \in Batches :
             batches[b] = "persisted"
                => /\ batches'[b] = "persisted"
                   /\ BatchItems(b) \subseteq DOMAIN catalog']_vars

\* A parallel run stopped early after refreshing catalogued rows and
\* inserting a new one, with pending batches cancelled.
C25_Witness ==
    /\ EarlyStopped
    /\ disc.workers > 1
    /\ NewlyInserted # {}
    /\ Cardinality(NewlyInserted) < disc.max_upserts[1]
    /\ \E b \in Batches : batches[b] = "cancelled"
    /\ \E b \in Batches : batches[b] = "persisted"

(***************************************************************************)
(* services/url_normalizer.py as a function: inputs are resolved, and the  *)
(* canonical_url of a result is resolved again.                            *)
(***************************************************************************)
InHttp == UrlOf("http", "www.google.com", "/maps/place/Cafe", "", "", "", FALSE)
InUpperScheme == UrlOf("HTTPS", "www.google.com", "/maps/place/Cafe", "", "", "", FALSE)
InUpperHost == UrlOf("https", "WWW.GOOGLE.COM", "/maps/place/Cafe", "", "", "", FALSE)
InShort == UrlOf("https", "maps.app.goo.gl", "/AbC", "", "", "", FALSE)
InShortMixed == UrlOf("https", "Maps.App.Goo.Gl", "/AbC", "", "", "", FALSE)
InCidBar == UrlOf("http", "www.google.com", "/maps/place/Bar", "", "C1", "", TRUE)
InFtidCafe == UrlOf("https", "www.google.com", "/maps/place/Cafe", "", "", "F1", FALSE)
InFtidBar == UrlOf("https", "www.google.com", "/maps/place/Bar", "", "", "F1", FALSE)
InPidCafe == UrlOf("https", "www.google.com", "/maps/place/Cafe", "P1", "C1", "", FALSE)
InPidBar == UrlOf("https", "WWW.GOOGLE.COM", "/maps/place/Bar", "P1", "", "", TRUE)
InQuery == Text("cafe")
InQuerySpace == Text("good cafe")

ResolveInputs ==
    Inputs \cup {InHttp, InUpperScheme, InUpperHost, InShort, InShortMixed,
                 InCidBar, InFtidCafe, InFtidBar, InPidCafe, InPidBar,
                 InQuery, InQuerySpace}

resolveOther ==
    <<clock, queueVars, cache, reviewVars, lastCall, gatewayVars, analyzeVars,
      discoverVars, txn, unitVars>>

\* normalize_input_to_canonical(raw_text) is called and returns.
Resolve(x) ==
    /\ Len(resolved) < MaxResolved
    /\ resolved' = Append(resolved,
                          [input |-> x,
                           result |-> normalize_input_to_canonical(x),
                           again |-> None])
    /\ UNCHANGED resolveOther

\* The canonical_url of an earlier result is resolved in turn.
ResolveAgain(i) ==
    /\ i \in DOMAIN resolved
    /\ resolved[i].again = None
    /\ resolved' =
          [resolved EXCEPT ![i].again =
              Some(normalize_input_to_canonical(AsInput(resolved[i].result.canonical_url)))]
    /\ UNCHANGED resolveOther

NextResolve ==
    \/ \E x \in ResolveInputs : Resolve(x)
    \/ \E i \in 1..MaxResolved : ResolveAgain(i)

SpecResolve == Init /\ [][NextResolve]_vars

(***************************************************************************)
(* Properties of the resolution of an input.                               *)
(***************************************************************************)
\* Two place URLs that differ at most in their dropped parameters, in the
\* scheme and in the letter case of the host.
SameButCosmetics(a, b) ==
    /\ a.kind = "url" /\ b.kind = "url"
    /\ lower(a.host) = lower(b.host)
    /\ a.path = b.path
    /\ a.place_id = b.place_id /\ a.cid = b.cid /\ a.ftid = b.ftid

\* C26: two place URLs that differ only in tracking parameters, in scheme
\* (http or https, in any letter case) or in the letter case of the host
\* resolve to the same cache_key.
C26_CosmeticsSameKey ==
    \A i, j \in DOMAIN resolved :
        SameButCosmetics(resolved[i].input, resolved[j].input)
            => resolved[i].result.cache_key = resolved[j].result.cache_key

\* C27: resolving the canonical_url of a result gives the same cache_key,
\* in the same key namespace, and the same canonical_url, for every input
\* (long URL, short link or free-text query).
C27_ResolveIdempotent ==
    \A i \in DOMAIN resolved :
        resolved[i].again # None
            => /\ resolved[i].again[1].cache_key = resolved[i].result.cache_key
               /\ resolved[i].again[1].canonical_url = resolved[i].result.canonical_url

\* The stable identifier a URL carries: the place identifier, otherwise the
\* cid, otherwise the ftid.
StableId(u) ==
    IF u.place_id # "" THEN <<"place_id", u.place_id>>
    ELSE IF u.cid # "" THEN <<"cid", u.cid>>
    ELSE IF u.ftid # "" THEN <<"ftid", u.ftid>>
    ELSE None

\* A URL on a Google Maps domain that extract_first_url finds.
MapsUrl(u) ==
    /\ extract_first_url(u) # None
    /\ _is_google_maps_domain(u.host)

\* C28: two URLs that carry the same stable identifier (place identifier,
\* else cid, else ftid) get the same cache_key whatever their path, and a
\* URL gets a content-hash key only when it carries none.
C28_KeyFromStableId ==
    \A i, j \in DOMAIN resolved :
        LET a == resolved[i].input
            b == resolved[j].input
        IN (MapsUrl(a) /\ MapsUrl(b))
              => /\ (StableId(a) # None /\ StableId(a) = StableId(b))
                       => resolved[i].result.cache_key = resolved[j].result.cache_key
                 /\ resolved[i].result.cache_key[1] = "url" => StableId(a) = None

(***************************************************************************)
(* services/review_store.py statement by statement: an upsert runs its     *)
(* INSERT OR IGNORE and UPDATE statements in one transaction of its own    *)
(* connection (sqlite3 opens it before the first INSERT) and commits once  *)
(* after the loop; list_recent_reviews reads through another connection.   *)
(* txn.st is the database as the writer's connection sees it, rows the     *)
(* committed one.  pc is "insert" before the INSERT of review i (or before *)
(* the commit, past the last review) and "touch" before its UPDATE.        *)
(***************************************************************************)
\* Lines 121-155: one INSERT OR IGNORE.
insert_or_ignore(st, key, r, now) ==
    IF row_created(st.rows, key)
    THEN [st EXCEPT !.rows = [x \in DOMAIN st.rows \cup {key} |->
                                 IF x = key THEN new_row(r, st.nextRowId, now)
                                 ELSE st.rows[x]],
                    !.nextRowId = @ + 1,
                    !.inserted = @ + 1]
    ELSE st

\* What a SELECT of another connection reads while the writer's transaction
\* is open: the working copy of the writer.
visible_rows_uncommitted(committed, t) ==
    IF t.pc = "idle" THEN committed ELSE t.st.rows

\* What a SELECT of another connection reads: committed rows only.
visible_rows(committed, t) == committed

\* The limits list_recent_reviews is called with.
Limits == {0, 2, 600}

\* <<canonical_url, reviews>> of the upserts made.
RecentArgs ==
    {<<"", <<RvB>>>>, <<OtherPlace, <<RvA>>>>, <<Place, <<RvA, RvA2>>>>,
     <<Place, <<NotADict, RvC, RvB>>>>}

recentOther ==
    <<clock, queueVars, cache, hashSeed, upserted, gatewayVars, analyzeVars,
      discoverVars, resolved, unitVars>>

\* Lines 68-88: upsert_place_reviews returns (0, 0) at once, or reads the
\* clock and opens its connection.
UpsertBegin(canonical_url, reviews) ==
    /\ txn.pc = "idle"
    /\ IF canonical_url = "" \/ reviews = <<>>
       THEN /\ lastCall' = Call("upsert", 0, <<canonical_url>>, "", FALSE,
                                PyValue("list", <<reviews>>),
                                Some(<<0, 0>>), 0, FALSE)
            /\ UNCHANGED txn
       ELSE /\ txn' = [pc |-> "insert", canonical_url |-> canonical_url,
                       reviews |-> reviews, i |-> 1, now |-> clock,
                       st |-> [rows |-> rows, nextRowId |-> nextRowId,
                               inserted |-> 0, processed |-> 0]]
            /\ UNCHANGED lastCall
    /\ UNCHANGED <<recentOther, rows, nextRowId>>

\* Lines 92-165: the next statement of the loop.
UpsertStatement ==
    /\ txn.pc \in {"insert", "touch"}
    /\ txn.i <= Len(txn.reviews)
    /\ LET r == txn.reviews[txn.i]
           key == <<txn.canonical_url, review_id_of(r, hashSeed)>>
       IN txn' =
            IF ~r.isdict THEN [txn EXCEPT !.i = @ + 1]
            ELSE IF txn.pc = "insert"
            THEN [txn EXCEPT !.pc = "touch",
                             !.st = [insert_or_ignore(txn.st, key, r, txn.now)
                                       EXCEPT !.processed = @ + 1]]
            ELSE [txn EXCEPT !.pc = "insert", !.i = @ + 1,
                             !.st.rows[key] = touch_seen(@, r, txn.now)]
    /\ UNCHANGED <<recentOther, rows, nextRowId, lastCall>>

\* Lines 167-170: conn.commit() after the loop, and the counts are returned.
UpsertCommit ==
    /\ txn.pc = "insert"
    /\ txn.i > Len(txn.reviews)
    /\ rows' = txn.st.rows
    /\ nextRowId' = txn.st.nextRowId
    /\ lastCall' = Call("upsert", 0, <<txn.canonical_url>>, "", FALSE,
                        PyValue("list", <<txn.reviews>>),
                        Some(<<txn.st.inserted, txn.st.processed>>), 0, FALSE)
    /\ txn' = IdleTxn
    /\ UNCHANGED recentOther

\* A statement raises (sqlite3.OperationalError): the finally at 168-169
\* closes the connection without a commit, which rolls the transaction back.
UpsertRaise ==
    /\ txn.pc \in {"insert", "touch"}
    /\ txn.i <= Len(txn.reviews)
    /\ lastCall' = Call("upsert", 0, <<txn.canonical_url>>, "", FALSE,
                        PyValue("list", <<txn.reviews>>),
                        None, 0, FALSE)
    /\ txn' = IdleTxn
    /\ UNCHANGED <<recentOther, rows, nextRowId>>

\* Lines 173-224: list_recent_reviews on its own connection.  The call
\* records where the writer stood (mode is txn.pc); the list returned is
\* obj.v[1].
ListRecent(canonical_url, limit) ==
    /\ lastCall' = Call("recent", 0, <<canonical_url>>, txn.pc, FALSE,
                        PyValue("list",
                                <<list_recent_reviews(visible_rows(rows, txn),
                                                      canonical_url, limit)>>),
                        Some(limit), 0, FALSE)
    /\ UNCHANGED <<recentOther, rows, nextRowId, txn>>

\* Time passing between two calls (an upsert reads the clock once, before
\* its first statement).
TickRecent ==
    /\ txn.pc = "idle"
    /\ clock < MaxReviewClock
    /\ clock' = clock + 1
    /\ UNCHANGED <<extVars, queueVars, cache, reviewVars, lastCall>>

RecentPlaces == {Place, OtherPlace, ""}

NextRecent ==
    \/ TickRecent
    \/ \E a \in RecentArgs : UpsertBegin(a[1], a[2])
    \/ UpsertStatement
    \/ UpsertCommit
    \/ UpsertRaise
    \/ \E u \in RecentPlaces : \E limit \in Limits : ListRecent(u, limit)

SpecRecent == Init /\ [][NextRecent]_vars

(***************************************************************************)
(* Properties of list_recent_reviews.                                      *)
(***************************************************************************)
\* The committed table once the upsert in progress has committed.
AfterCommit ==
    IF txn.pc = "idle" THEN rows
    ELSE upsert_place_reviews(rows, nextRowId, txn.canonical_url, txn.reviews,
                              hashSeed, txn.now).rows

\* C29: a list_recent_reviews call made while an upsert is in progress
\* returns the rows as they were before the upsert or as they are once it
\* has committed, never a row the upsert inserted and has not yet
\* refreshed; the table changes only by the commit, which applies all the
\* inserts and refreshes of the upsert at once.
C29_ReadCommitted ==
    [][/\ IsCall("recent")
             => LET u == lastCall'.key[1]
                    limit == lastCall'.ret[1]
                IN lastCall'.obj.v[1] \in {list_recent_reviews(rows, u, limit),
                                      list_recent_reviews(AfterCommit, u, limit)}
       /\ rows' # rows
             => /\ txn.pc = "insert" /\ txn'.pc = "idle"
                /\ rows' = AfterCommit]_vars

\* A read made between the INSERT of a new row and its UPDATE, for a place
\* that has committed rows.
C29_Witness ==
    /\ lastCall.op = "recent"
    /\ lastCall.mode = "touch" /\ txn.pc = "touch"
    /\ lastCall.key = <<txn.canonical_url>>
    /\ <<txn.canonical_url, review_id_of(txn.reviews[txn.i], hashSeed)>>
          \notin DOMAIN rows
    /\ Len(lastCall.obj.v[1]) >= 1

\* Row a comes before row b in ORDER BY datetime(published_at) DESC, id DESC.
ComesBefore(a, b) ==
    \/ date_rank(rows[a].published_at) > date_rank(rows[b].published_at)
    \/ /\ date_rank(rows[a].published_at) = date_rank(rows[b].published_at)
       /\ rows[a].id > rows[b].id

PlaceKeys(u) == {k \in DOMAIN rows : k[1] = u}

Responses ==
    {"object", "garbage", "no_choices", "null", "array", "timeout", "http_error"}

\* Lines 390-392: the exceptions after which the loop goes on.
retryable_any(response) == response # "object"

retryable(response) == response \in {"garbage", "no_choices"}

\* The exception a response makes the loop body raise.
error_of(response) ==
    IF response = "garbage" THEN "JSONDecodeError"
    ELSE IF response = "no_choices" THEN "KeyError"
    ELSE IF response = "timeout" THEN "Timeout"
    ELSE IF response = "http_error" THEN "HTTPError"
    ELSE ""

\* Lines 398-421: what analyse_reviews ends with once the loop is left.
after_loop(analysis, last_error) ==
    IF analysis = ""
    THEN IF last_error = "JSONDecodeError" THEN "raised:JSONDecodeError"
         ELSE "raised:Model response parse failed"
    ELSE IF analysis = "object" THEN "returned"
    ELSE "raised:AttributeError"

inferOther ==
    <<clock, queueVars, cache, reviewVars, lastCall, gatewayVars, analyzeVars,
      discoverVars, resolveVars, tail, gw, wr, pcat>>

\* analyse_reviews is called: the payload is built (lines 318-371).
InferStart ==
    /\ infer.pc \in {"idle", "ended"}
    /\ Len(infer.history) < MaxInferCalls
    /\ infer' = [IdleInfer EXCEPT !.pc = "loop", !.history = infer.history]
    /\ UNCHANGED inferOther

\* Lines 373-421: one pass of the loop, the request sent and its response
\* dealt with, and, when the pass leaves the loop, the rest of the function.
InferRespond(response) ==
    /\ infer.pc = "loop"
    /\ LET prompt == IF \E n \in DOMAIN infer.log : retryable(infer.log[n][2])
                     THEN "corrective" ELSE "plain"
           log == Append(infer.log, <<prompt, response>>)
           last_error == IF response \in {"garbage", "no_choices", "http_error"}
                         THEN error_of(response) ELSE infer.last_error
           analysis == IF response \in {"object", "array"} THEN response ELSE ""
           outcome ==
               IF response = "timeout" THEN "raised:Timeout"
               ELSE IF retryable(response) /\ Len(log) < 2 THEN ""
               ELSE after_loop(analysis, last_error)
       IN infer' = [infer EXCEPT
                       !.log = log,
                       !.last_error = last_error,
                       !.analysis = analysis,
                       !.outcome = outcome,
                       !.pc = IF outcome = "" THEN "loop" ELSE "ended",
                       !.history = IF outcome = "" THEN @
                                   ELSE Append(@, outcome)]
    /\ UNCHANGED inferOther

NextInfer ==
    \/ InferStart
    \/ \E response \in Responses : InferRespond(response)

SpecInfer == Init /\ [][NextInfer]_vars

(***************************************************************************)
(* Properties of analyse_reviews.                                          *)
(***************************************************************************)
ParseFailure(response) == response \in {"garbage", "no_choices"}

ParseErrors == {"raised:JSONDecodeError", "raised:Model response parse failed"}

\* C31: one call of analyse_reviews sends at most two requests; the second
\* is sent only after the first response failed to parse, and carries the
\* corrective instruction; when the second fails to parse as well a parse
\* error is raised and no analysis is returned; a timeout or an HTTP error
\* is followed by no further request and is raised; an analysis is returned
\* only from a response that parsed as an object.
C31_BoundedRetry ==
    /\ Len(infer.log) <= 2
    /\ infer.log # <<>> => infer.log[1][1] = "plain"
    /\ Len(infer.log) = 2
          => /\ ParseFailure(infer.log[1][2])
             /\ infer.log[2][1] = "corrective"
    /\ (Len(infer.log) = 2 /\ ParseFailure(infer.log[2][2]))
          => infer.pc = "ended" /\ infer.outcome \in ParseErrors
    /\ \A n \in DOMAIN infer.log :
          infer.log[n][2] \in {"timeout", "http_error"}
             => /\ n = Len(infer.log)
                /\ infer.pc = "ended"
                /\ infer.outcome \notin {"", "returned"}
                /\ infer.log[n][2] = "timeout" => infer.outcome = "raised:Timeout"
    /\ infer.outcome = "returned"
          => infer.log[Len(infer.log)][2] = "object"

\* A call whose two responses both failed to parse, after a call that
\* returned an analysis on its second request.
C31_Witness ==
    /\ infer.pc = "ended"
    /\ Len(infer.log) = 2
    /\ ParseFailure(infer.log[2][2])
    /\ infer.outcome = "raised:JSONDecodeError"
    /\ infer.history[1] = "returned"

(***************************************************************************)
(* The store writes after analyse_reviews has returned, in api_analyze     *)
(* (app.py 808-831) and in _process_one (build_xinyi_db.py 719-763).       *)
(*                                                                         *)
(* tail.faults names the writes that raise in this run of the code:        *)
(* "cache" set_cached_analysis, "summary" record_place_from_analysis,      *)
(* "status" update_catalog_analyze_status with status done, "handler" the  *)
(* same call in the except block.  tail.status is the analyze status of    *)
(* the catalog row, "running" since the start of _process_one.             *)
(***************************************************************************)
TailFaults == {"cache", "summary", "status", "handler"}

tailOther ==
    <<clock, queueVars, cache, reviewVars, lastCall, gatewayVars, analyzeVars,
      discoverVars, resolveVars, infer, gw, wr, pcat>>

TailEnds(t) == tail' = [t EXCEPT !.history = Append(tail.history, t.reported)]

\* app.py 808-831: each write in its own try block whose except passes; the
\* analysis is returned with status 200.
ApiAnalyzeTail(faults) ==
    /\ Len(tail.history) < MaxTailCalls
    /\ faults \subseteq {"cache", "summary"}
    /\ TailEnds([IdleTail EXCEPT
                    !.path = "interactive",
                    !.faults = faults,
                    !.cached = "cache" \notin faults,
                    !.summarised = "summary" \notin faults,
                    !.reported = "200"])
    /\ UNCHANGED tailOther

\* build_xinyi_db.py 719-763: the three writes in a row inside the try block
\* of _process_one; the first that raises sends control to the except block,
\* whose status write "error" returns ("failed", ...) or raises in its turn.
ProcessOneTail(faults) ==
    /\ Len(tail.history) < MaxTailCalls
    /\ LET cached == "cache" \notin faults
           summarised == cached /\ "summary" \notin faults
           done == summarised /\ "status" \notin faults
       IN TailEnds([IdleTail EXCEPT
                       !.path = "bulk",
                       !.faults = faults,
                       !.cached = cached,
                       !.summarised = summarised,
                       !.status = IF done THEN "done"
                                  ELSE IF "handler" \in faults THEN "running"
                                  ELSE "error",
                       !.reported = IF done THEN "analyzed"
                                    ELSE IF "handler" \in faults THEN "raised"
                                    ELSE "failed"])
    /\ UNCHANGED tailOther

NextTail ==
    \/ \E faults \in SUBSET {"cache", "summary"} : ApiAnalyzeTail(faults)
    \/ \E faults \in SUBSET TailFaults : ProcessOneTail(faults)

SpecTail == Init /\ [][NextTail]_vars

\* The cache write went through and a secondary write (place summary or
\* catalog status) raised.
SecondaryFailure ==
    /\ tail.path # ""
    /\ "cache" \notin tail.faults
    /\ tail.faults \cap {"summary", "status"} # {}

\* C32: when the place summary write or the catalog status write raises
\* after an analysis, the analysis is still cached and the request or item
\* is still reported as successful, in api_analyze and in _process_one.
C32_SecondaryWritesBestEffort ==
    SecondaryFailure
        => /\ tail.cached
           /\ tail.reported \in {"200", "analyzed"}

\* The interactive half of C32, which the code keeps.
C32_InteractiveBestEffort ==
    (SecondaryFailure /\ tail.path = "interactive")
        => /\ tail.cached
           /\ tail.reported = "200"

(***************************************************************************)
(* services/apify_client.py _apify_run_actor, step by step, for the        *)
(* threads of one process.                                                 *)
(*                                                                         *)
(* gw.free is the value of _APIFY_RUN_SEM.  A call waits in "acquire",     *)
(* holds a permit in "post" and is over in "ended".  waited counts the     *)
(* acquire timeouts of one second since t_acquire0.  silent: the server    *)
(* sends nothing back, so that only the timeout of requests.post ends the  *)
(* wait.  gw.event is what the last step printed or ended with: <<>>,      *)
(* <<"slot", c>> for the waiting hint, <<"heartbeat", c>> for a heartbeat  *)
(* line, <<"ended", c, outcome>> for the end of a call.                    *)
(***************************************************************************)
HeartbeatIntervals == {0, HeartbeatEvery}

PostOutcomes == {"result", "http_error", "timeout", "connection_error"}

gwOther ==
    <<clock, queueVars, cache, reviewVars, lastCall, gatewayVars, analyzeVars,
      discoverVars, resolveVars, infer, tail, wr, pcat>>

\* Line 161: the cadence of the waiting hint.
every_same(heartbeat_every) == heartbeat_every

every(heartbeat_every) ==
    IF heartbeat_every > 0 THEN heartbeat_every ELSE SLOT_HINT_EVERY

\* Lines 175-187: the release is in the finally block, whatever
\* requests.post does.
release_on_return(outcome) == outcome \in {"result", "http_error"}

release_in_finally(outcome) == TRUE

\* Lines 176-181: requests.post ends with a response when the server
\* answers, and with a timeout in any case.
post_ends_no_timeout(silent, outcome) == ~silent /\ outcome # "timeout"

post_ends(silent, outcome) == ~silent \/ outcome = "timeout"

\* Lines 112-151: _apify_run_actor is entered; the heartbeat thread of the
\* thread's last call, never joined, is taken to be over by then.
GwCall(c, heartbeat_every) ==
    /\ gw.calls[c].pc \in {"idle", "ended"}
    /\ gw.calls[c].hb \in {"none", "exited"}
    /\ gw' = [gw EXCEPT !.calls[c] = [IdleGatewayCall EXCEPT
                                          !.pc = "acquire",
                                          !.heartbeat_every = heartbeat_every],
                        !.event = <<>>]
    /\ UNCHANGED gwOther

\* Lines 156-158 and 171-174: acquire(timeout=1.0) gets a permit; the
\* heartbeat thread is started when the interval is positive.
GwAcquire(c, silent) ==
    /\ gw.calls[c].pc = "acquire"
    /\ gw.free > 0
    /\ gw' = [gw EXCEPT !.free = @ - 1,
                        !.calls[c].pc = "post",
                        !.calls[c].waited = 0,
                        !.calls[c].silent = silent,
                        !.calls[c].hb = IF gw.calls[c].heartbeat_every > 0
                                        THEN "sleep" ELSE "none",
                        !.event = <<>>]
    /\ UNCHANGED gwOther

\* Lines 157-169: acquire(timeout=1.0) times out; the hint is printed and
\* t_acquire0 reset once the cadence is reached.
GwAcquireTimeout(c) ==
    /\ gw.calls[c].pc = "acquire"
    /\ gw.free = 0
    /\ LET waited == gw.calls[c].waited + 1
           hint == waited >= every(gw.calls[c].heartbeat_every)
       IN gw' = [gw EXCEPT !.calls[c].waited = IF hint THEN 0 ELSE waited,
                           !.event = IF hint THEN <<"slot", c>> ELSE <<>>]
    /\ UNCHANGED gwOther

\* Lines 175-200: requests.post returns or raises, the finally block sets
\* stop_evt and releases the permit, and the call returns or raises.
GwPostEnds(c, outcome) ==
    /\ gw.calls[c].pc = "post"
    /\ post_ends(gw.calls[c].silent, outcome)
    /\ gw' = [gw EXCEPT !.free = IF release_in_finally(outcome) THEN @ + 1 ELSE @,
                        !.calls[c].pc = "ended",
                        !.calls[c].stop_evt = TRUE,
                        !.calls[c].silent = FALSE,
                        !.event = <<"ended", c, outcome>>]
    /\ UNCHANGED gwOther

\* Lines 139-150: one step of _heartbeat: the first sleep ends, the loop
\* condition is read, the line is printed, stop_evt.wait returns.
HeartbeatStep(c) ==
    LET hb == gw.calls[c].hb IN
    /\ hb \in {"sleep", "check", "print", "wait"}
    /\ gw' = [gw EXCEPT
                 !.calls[c].hb =
                     IF hb = "sleep" THEN "check"
                     ELSE IF hb = "check"
                          THEN IF gw.calls[c].stop_evt THEN "exited" ELSE "print"
                     ELSE IF hb = "print" THEN "wait"
                     ELSE "check",
                 !.event = IF hb = "print" THEN <<"heartbeat", c>> ELSE <<>>]
    /\ UNCHANGED gwOther

NextGw ==
    \/ \E c \in Callers, h \in HeartbeatIntervals : GwCall(c, h)
    \/ \E c \in Callers, silent \in BOOLEAN : GwAcquire(c, silent)
    \/ \E c \in Callers : GwAcquireTimeout(c)
    \/ \E c \in Callers, outcome \in PostOutcomes : GwPostEnds(c, outcome)
    \/ \E c \in Callers : HeartbeatStep(c)

SpecGw == Init /\ [][NextGw]_vars

\* requests.post ends within its timeout (weak fairness of the end of the
\* request), and a thread blocked in Semaphore.acquire is woken by release
\* and gets the permit if permits are released again and again (strong
\* fairness of the acquisition).
SpecGwFair ==
    /\ SpecGw
    /\ \A c \in Callers :
          /\ WF_vars(\E outcome \in PostOutcomes : GwPostEnds(c, outcome))
          /\ SF_vars(\E silent \in BOOLEAN : GwAcquire(c, silent))

(***************************************************************************)
(* Properties of _apify_run_actor.                                         *)
(***************************************************************************)
InGatewayCall(c) == gw.calls[c].pc \in {"acquire", "post"}

HeartbeatAlive(hb) == hb \in {"sleep", "check", "print", "wait"}

C34_ZeroIntervalSilent ==
    \A c \in Callers :
        gw.calls[c].heartbeat_every = 0
            => gw.event \notin {<<"slot", c>>, <<"heartbeat", c>>}

\* C34: with heartbeat interval zero no heartbeat thread is started and no
\* heartbeat line printed, and the waiting hint is printed at every tenth
\* acquire timeout; with a positive interval the waiting hint is printed
\* whenever the interval has been waited since the last hint, and a
\* heartbeat thread runs while the request is in flight.
C34_SignalsByInterval ==
    [][\A c \in Callers :
         LET k == gw.calls[c]
             k2 == gw'.calls[c]
             due == k.waited + 1 >= (IF k.heartbeat_every > 0
                                     THEN k.heartbeat_every ELSE SLOT_HINT_EVERY)
         IN /\ gw'.event = <<"heartbeat", c>>
                  => k.heartbeat_every > 0 /\ k.hb = "print"
            /\ k2.heartbeat_every = 0 => k2.hb = "none"
            /\ (k2.pc = "post" /\ k2.heartbeat_every > 0) => HeartbeatAlive(k2.hb)
            /\ gw'.event = <<"slot", c>>
                  => k.pc = "acquire" /\ gw.free = 0 /\ due
            /\ (k.pc = "acquire" /\ k2.pc = "acquire" /\ k2 # k)
                  => (gw'.event = <<"slot", c>> <=> due)]_vars

\* The waiting hint of a call with interval zero is printed while the
\* heartbeat thread of a call in flight has printed its line.
C34_Witness ==
    \E c, d \in Callers :
        /\ gw.event = <<"slot", c>>
        /\ gw.calls[c].heartbeat_every = 0
        /\ gw.calls[d].pc = "post"
        /\ gw.calls[d].hb = "wait"

\* C36: once a call has returned or raised, its heartbeat thread is over
\* and prints nothing.
C36_HeartbeatOverAtReturn ==
    \A c \in Callers :
        gw.calls[c].pc = "ended"
            => /\ ~HeartbeatAlive(gw.calls[c].hb)
               /\ gw.event # <<"heartbeat", c>>

\* The second half of C36 alone: no heartbeat line after the return.
NoHeartbeatAfterReturn ==
    \A c \in Callers :
        gw.calls[c].pc = "ended" => gw.event # <<"heartbeat", c>>

GwInFlight == {c \in Callers : gw.calls[c].pc = "post"}

\* C37: free permits + calls holding a permit = the ceiling in every state;
\* a call that ends, whatever its outcome, gives back exactly one permit; with
\* no call in flight every permit is free.
C37_PermitsConserved ==
    /\ [](/\ gw.free + Cardinality(GwInFlight) = _APIFY_MAX_CONCURRENT_RUNS
          /\ GwInFlight = {} => gw.free = _APIFY_MAX_CONCURRENT_RUNS)
    /\ [][\A c \in Callers :
            (gw.calls[c].pc = "post" /\ gw'.calls[c].pc = "ended")
                => gw'.free = gw.free + 1]_vars

\* The last call in flight ends by timeout and every permit is free.
C37_Witness ==
    \E c \in Callers :
        /\ gw.event = <<"ended", c, "timeout">>
        /\ GwInFlight = {}
        /\ gw.free = _APIFY_MAX_CONCURRENT_RUNS

(***************************************************************************)
(* scripts/build_xinyi_db.py: who writes to the stores in a bulk run.      *)
(*                                                                         *)
(* A thread's todo is the sequence of the sections it has still to run; a  *)
(* section is the sequence of store writes made in one `with db_lock:`     *)
(* block (analysis) or in one stretch of the coordinating thread           *)
(* (discovery); a section without writes is a read under the lock, or the  *)
(* fetch of a pool thread.  A write is in progress from WriteBegin to      *)
(* WriteEnd.                                                               *)
(***************************************************************************)
\* _process_one, lines 640-763: the sections of one item, by the path taken.
ProcessOnePlans ==
    { <<<<"catalog_status">>>>,
      <<<<"catalog_status">>, <<"catalog_status">>>>,
      <<<<"catalog_status">>, <<"review_store">>, <<"catalog_status">>>>,
      <<<<"catalog_status">>, <<"review_store">>, <<>>, <<"catalog_status">>>>,
      <<<<"catalog_status">>, <<"review_store">>, <<>>,
        <<"cache", "place_summary", "catalog_status">>>> }

\* analyze_catalog, lines 773-815: update_job for each future, and at the end.
AnalyzeMainPlan == <<<<"job">>, <<"job">>, <<"job">>>>

\* discover_places_grid, lines 411-539: _upsert_items and update_job for each
\* batch fetched, and update_job at the end.
DiscoverMainPlan == <<<<"catalog">>, <<"job">>, <<"catalog">>, <<"job">>, <<"job">>>>

\* _fetch_one, lines 418-429: search_places_bulk, and nothing else.
FetchPlan == <<<<>>>>

\* The blocks of analyze_catalog are `with db_lock:` blocks; discovery has no
\* writer lock.
holds_db_lock_in_workers(kind, t) == kind = "analysis" /\ t # "main"

holds_db_lock(kind, t) == kind = "analysis"

wrOther ==
    <<clock, queueVars, cache, reviewVars, lastCall, gatewayVars, analyzeVars,
      discoverVars, resolveVars, infer, tail, gw, pcat>>

RunOver == \A t \in RunThreads : wr.threads[t] = [pc |-> "ready", todo |-> <<>>]

\* analyze_catalog up to the submission of the futures (lines 556-772):
\* create_job is called before the pool exists.
StartAnalysisWrites(p1, p2) ==
    /\ RunOver
    /\ wr' = [wr EXCEPT !.kind = "analysis",
                        !.threads = [t \in RunThreads |->
                            [pc |-> "ready",
                             todo |-> IF t = "main" THEN AnalyzeMainPlan
                                      ELSE IF t = "w1" THEN p1 ELSE p2]]]
    /\ UNCHANGED wrOther

\* discover_places_grid up to the submission of the futures (lines 316-437).
StartDiscoveryWrites ==
    /\ RunOver
    /\ wr' = [wr EXCEPT !.kind = "discovery",
                        !.threads = [t \in RunThreads |->
                            [pc |-> "ready",
                             todo |-> IF t = "main" THEN DiscoverMainPlan
                                      ELSE FetchPlan]]]
    /\ UNCHANGED wrOther

\* A section is entered: `with db_lock:` blocks until the lock is free.
SectionEnter(t) ==
    /\ wr.threads[t].pc = "ready"
    /\ wr.threads[t].todo # <<>>
    /\ IF holds_db_lock(wr.kind, t)
       THEN /\ wr.db_lock = ""
            /\ wr' = [wr EXCEPT !.db_lock = t, !.threads[t].pc = "inside"]
       ELSE wr' = [wr EXCEPT !.threads[t].pc = "inside"]
    /\ UNCHANGED wrOther

\* The next write of the section begins.
WriteBegin(t) ==
    /\ wr.threads[t].pc = "inside"
    /\ Head(wr.threads[t].todo) # <<>>
    /\ wr' = [wr EXCEPT !.threads[t].pc = "writing",
                        !.writing = @ \cup {<<t, Head(Head(wr.threads[t].todo))>>}]
    /\ UNCHANGED wrOther

\* The write in progress ends.
WriteEnd(t) ==
    /\ wr.threads[t].pc = "writing"
    /\ wr' = [wr EXCEPT !.threads[t].pc = "inside",
                        !.threads[t].todo[1] = Tail(@),
                        !.writing = @ \ {<<t, Head(Head(wr.threads[t].todo))>>}]
    /\ UNCHANGED wrOther

\* The section is left: the lock, if held, is released.
SectionLeave(t) ==
    /\ wr.threads[t].pc = "inside"
    /\ Head(wr.threads[t].todo) = <<>>
    /\ wr' = [wr EXCEPT !.threads[t].pc = "ready",
                        !.threads[t].todo = Tail(@),
                        !.db_lock = IF @ = t THEN "" ELSE @]
    /\ UNCHANGED wrOther

NextWriters ==
    \/ \E p1, p2 \in ProcessOnePlans : StartAnalysisWrites(p1, p2)
    \/ StartDiscoveryWrites
    \/ \E t \in RunThreads : SectionEnter(t)
    \/ \E t \in RunThreads : WriteBegin(t)
    \/ \E t \in RunThreads : WriteEnd(t)
    \/ \E t \in RunThreads : SectionLeave(t)

SpecWriters == Init /\ [][NextWriters]_vars

\* C35: in a bulk run no two store writes are in progress at once: in
\* analysis every write is made by the thread that holds db_lock, in
\* discovery every write is made by the coordinating thread.
C35_WritesSerialised ==
    /\ Cardinality(wr.writing) <= 1
    /\ \A w \in wr.writing :
          /\ wr.kind = "analysis" => wr.db_lock = w[1]
          /\ wr.kind = "discovery" => w[1] = "main"

\* An analysis worker writes the place summary while the other worker and
\* the main thread, about to write, wait for the lock.
C35_Witness ==
    /\ wr.kind = "analysis"
    /\ wr.writing = {<<"w1", "place_summary">>}
    /\ wr.threads["w2"].pc = "ready" /\ wr.threads["w2"].todo # <<>>
    /\ wr.threads["main"].pc = "ready" /\ wr.threads["main"].todo # <<>>

(***************************************************************************)
(* The job record at the end of a bulk run.                                *)
(***************************************************************************)
\* C38: when a discovery run or an analysis run has ended, by returning or by
\* raising, the job it created has status done or error.
C38_JobSettledAtEnd ==
    /\ disc.pc \in {"returned", "raised"} => job.status \in {"done", "error"}
    /\ run.pc \in {"returned", "aborted"} => job.status \in {"done", "error"}

(***************************************************************************)
(* services/place_store.py: table place_catalog, row by row.               *)
(*                                                                         *)
(* A row carries its key (tag, canonical_url), two of the nullable         *)
(* descriptive columns (name, google_rating; the others are written by the *)
(* same COALESCE) and the bookkeeping columns.  pcat.last is the last      *)
(* statement run.                                                          *)
(***************************************************************************)
Tags == {"xinyi", "daan"}

SuppliedNames == {None, Some("Cafe"), Some("Cafe Xinyi")}

SuppliedRatings == {None, Some(4)}

\* SQL COALESCE of two values.
COALESCE_first(a, b) == a

COALESCE(a, b) == IF a # None THEN a ELSE b

\* The rows that conflict with (tag, canonical_url) on UNIQUE (tag,
\* canonical_url), lines 87 and 151.
conflicting(table, tag, canonical_url) ==
    {r \in table : r.tag = tag /\ r.canonical_url = canonical_url}

\* upsert_catalog_place, lines 388-536, as _upsert_items calls it (lines
\* 299-311, with no value for the three analysis columns): INSERT ... ON
\* CONFLICT(tag, canonical_url) DO UPDATE SET.
place_catalog_upsert(table, tag, canonical_url, name, google_rating, now) ==
    IF tag = "" \/ canonical_url = "" THEN table
    ELSE IF conflicting(table, tag, canonical_url) = {}
    THEN table \cup {[tag |-> tag, canonical_url |-> canonical_url,
                      name |-> name, google_rating |-> google_rating,
                      discovered_at |-> now, last_seen_at |-> now,
                      last_analyzed_at |-> None, last_analyze_status |-> None,
                      last_error |-> None]}
    ELSE {IF r \in conflicting(table, tag, canonical_url)
          THEN [r EXCEPT
                   !.name = COALESCE(name, r.name),
                   !.google_rating = COALESCE(google_rating, r.google_rating),
                   !.last_seen_at = now,
                   !.last_analyzed_at = COALESCE(None, r.last_analyzed_at),
                   !.last_analyze_status = COALESCE(None, r.last_analyze_status),
                   !.last_error = COALESCE(None, r.last_error)]
          ELSE r : r \in table}

\* update_catalog_analyze_status, lines 758-810: UPDATE ... WHERE tag = ? AND
\* canonical_url = ?.
place_catalog_status(table, tag, canonical_url, status, error, now) ==
    {IF r \in conflicting(table, tag, canonical_url)
     THEN [r EXCEPT !.last_analyzed_at = Some(now),
                    !.last_analyze_status = Some(status),
                    !.last_error = error]
     ELSE r : r \in table}

catalogOther ==
    <<clock, queueVars, cache, reviewVars, lastCall, gatewayVars, analyzeVars,
      discoverVars, resolveVars, infer, tail, gw, wr>>

\* _upsert_items calls upsert_catalog_place for a place found.
CatalogUpsert(tag, name, google_rating) ==
    /\ pcat' = [pcat EXCEPT
                   !.rows = place_catalog_upsert(pcat.rows, tag, Place, name,
                                                 google_rating, pcat.now),
                   !.last = [op |-> "upsert", tag |-> tag, canonical_url |-> Place,
                             name |-> name, google_rating |-> google_rating]]
    /\ UNCHANGED catalogOther

\* _process_one writes the outcome of an analysis.
CatalogStatus(tag, status) ==
    /\ pcat' = [pcat EXCEPT
                   !.rows = place_catalog_status(
                                pcat.rows, tag, Place, status,
                                IF status = "error" THEN Some("boom") ELSE None,
                                pcat.now),
                   !.last = [op |-> "status", tag |-> tag, canonical_url |-> Place,
                             name |-> None, google_rating |-> None]]
    /\ UNCHANGED catalogOther

\* Time passes between two statements.
CatalogTick ==
    /\ pcat.now < MaxCatalogClock
    /\ pcat' = [pcat EXCEPT !.now = @ + 1,
                            !.last = [@ EXCEPT !.op = "tick"]]
    /\ UNCHANGED catalogOther

NextCatalog ==
    \/ \E tag \in Tags, name \in SuppliedNames, google_rating \in SuppliedRatings :
          CatalogUpsert(tag, name, google_rating)
    \/ \E tag \in Tags, status \in {"done", "error"} : CatalogStatus(tag, status)
    \/ CatalogTick

SpecCatalog == Init /\ [][NextCatalog]_vars

\* C39: an upsert of a place the catalog already has under the tag leaves
\* one row for (tag, place); discovered_at, last_analyzed_at,
\* last_analyze_status and last_error keep their values; a column supplied as
\* null keeps its stored value and a column supplied non-null takes the
\* supplied value; last_seen_at is the time of the upsert; the rows of other
\* tags are untouched.
C39_RediscoveryKeepsRow ==
    [][LET l == pcat'.last
           old == conflicting(pcat.rows, l.tag, l.canonical_url)
           new == conflicting(pcat'.rows, l.tag, l.canonical_url)
       IN (l.op = "upsert" /\ old # {})
            => /\ Cardinality(old) = 1 /\ Cardinality(new) = 1
               /\ \A r \in old : \A r2 \in new :
                     /\ r2.discovered_at = r.discovered_at
                     /\ r2.last_analyzed_at = r.last_analyzed_at
                     /\ r2.last_analyze_status = r.last_analyze_status
                     /\ r2.last_error = r.last_error
                     /\ r2.name = IF l.name = None THEN r.name ELSE l.name
                     /\ r2.google_rating = IF l.google_rating = None
                                           THEN r.google_rating ELSE l.google_rating
                     /\ r2.last_seen_at = pcat.now
               /\ pcat'.rows \ new = pcat.rows \ old]_vars

\* The place, analysed under one tag and discovered under both, is found
\* again later with no name and a rating.
C39_Witness ==
    /\ pcat.last.op = "upsert"
    /\ pcat.last.name = None
    /\ pcat.last.google_rating # None
    /\ \E r \in conflicting(pcat.rows, pcat.last.tag, Place) :
          /\ r.name = Some("Cafe")
          /\ r.discovered_at < r.last_seen_at
          /\ r.last_analyze_status = Some("error")
          /\ r.last_error # None
    /\ \E r \in pcat.rows : r.tag # pcat.last.tag /\ r.name = Some("Cafe Xinyi")

(***************************************************************************)
(* The task queue under fair scheduling: a work item handed to _EXECUTOR   *)
(* is picked up, and each external call of _run_worker returns or raises,  *)
(* so a worker that can take its next step takes it.                       *)
(***************************************************************************)
WorkerStep(t) ==
    \/ WorkerStart(t)
    \/ WorkerCheckCache(t)
    \/ \E reviews \in ScrapeResults : WorkerScrape(t, reviews)
    \/ WorkerScrapeFails(t)
    \/ WorkerInfer(t)
    \/ WorkerWrite(t)
    \/ WorkerFinally(t)

NextQueueFair ==
    \/ Tick
    \/ \E dt \in {0, 1} : SubmitTask(InPlain, "quick", dt)
    \/ \E t \in TaskIds : WorkerStep(t)
    \/ \E t \in TaskIds : GetTaskStatus(t)

SpecQueueFair ==
    /\ Init
    /\ [][NextQueueFair]_vars
    /\ \A t \in TaskIds : WF_vars(WorkerStep(t))

LiveTask(t) == t \in DOMAIN tasks /\ ~Terminated(tasks[t])

\* C40 as stated: every task submitted reaches done or error.
C40_EveryTaskTerminates ==
    \A t \in TaskIds :
        (t \in DOMAIN tasks) ~> (t \in DOMAIN tasks /\ Terminated(tasks[t]))

\* C40: every task submitted reaches done or error unless its record is
\* removed as expired first, so that no record stays pending or running for
\* ever; a worker that has reached its finally block has left the record, if
\* it still exists, done or error; and a task without a worker has no dedupe
\* entry.
C40_TaskEndsOrExpires ==
    /\ \A t \in TaskIds : LiveTask(t) ~> ~LiveTask(t)
    /\ [](\A t \in DOMAIN workers :
            (workers[t].pc = "finally" /\ t \in DOMAIN tasks)
                => Terminated(tasks[t]))
    /\ [](\A k \in DOMAIN running : running[k] \in DOMAIN workers)

\* The record of one task was removed while its worker was still at work,
\* and the other task has ended in error.
C40_Witness ==
    \E t, u \in TaskIds :
        /\ t \in DOMAIN workers /\ workers[t].pc = "scrape"
        /\ t \notin DOMAIN tasks
        /\ u \in DOMAIN tasks /\ tasks[u].status = "error"
        /\ u \notin DOMAIN workers
====
